---- MODULE Spec2Model ----
(***************************************************************************)
(* Northstar: period calculator (lib/periods), task toggling (lib/goals,   *)
(* api/goals PATCH) and the goal document paths of the producers.          *)
(*                                                                         *)
(* A Date is a record [day, tod]: day counts calendar days from            *)
(* 2024-01-01 (a Monday, day 0), tod is the time of day in ticks, tick 0   *)
(* being 00:00:00.000 and tick LastTick 23:59:59.999.  All dates are local *)
(* dates, as the date-fns functions used by the code treat them.           *)
(***************************************************************************)
EXTENDS Integers, Sequences, FiniteSets, TLC

VARIABLES now, ptype, anchor, op, out, paths, store, req

vars == <<now, ptype, anchor, op, out, paths, store, req>>

periodVars == <<now, ptype, anchor, op, out, paths>>

goalVars == <<store, req>>

(***************************************************************************)
(* Bounds                                                                  *)
(***************************************************************************)
\* anchor dates range over the years EpochYear .. EpochYear + NumYears - 1
NumYears == 2

\* ticks of a day: 0 .. TicksPerDay - 1
TicksPerDay == 3

\* lines of a goal document body
MaxLines == 3

EpochYear == 2024

LastTick == TicksPerDay - 1

(***************************************************************************)
(* Calendar arithmetic (date-fns)                                          *)
(***************************************************************************)
IsLeap(y) == (y % 4 = 0 /\ y % 100 # 0) \/ y % 400 = 0

DaysInYear(y) == IF IsLeap(y) THEN 366 ELSE 365

DaysInMonth(y, m) ==
    IF m = 2 THEN (IF IsLeap(y) THEN 29 ELSE 28)
    ELSE IF m \in {4, 6, 9, 11} THEN 30 ELSE 31

\* the years the calendar is used for: a vision period ends two years
\* after its anchor, and the parent of its last child two years after that
FirstYear == EpochYear - 1

LastYear == EpochYear + NumYears + 5

\* number of leap years before year y
LeapsBefore(y) == ((y - 1) \div 4) - ((y - 1) \div 100) + ((y - 1) \div 400)

\* day number of January 1st of year y
YearStart(y) == 365 * (y - EpochYear) + LeapsBefore(y) - LeapsBefore(EpochYear)

\* days of a common year before the 1st of each month
DaysBeforeMonth == <<0, 31, 59, 90, 120, 151, 181, 212, 243, 273, 304, 334>>

\* day number of the 1st of month m of year y
MonthStart(y, m) ==
    YearStart(y) + DaysBeforeMonth[m] + (IF m > 2 /\ IsLeap(y) THEN 1 ELSE 0)

\* new Date(year, monthIndex, day) at midnight
MkDate(y, m, d) == [day |-> MonthStart(y, m) + d - 1, tod |-> 0]

\* the year of day number n, n >= YearStart(FirstYear): a year has at least
\* 365 days, so the estimate is the year or the year after it
YearOfDay(n) ==
    LET y == EpochYear + (n \div 365)
    IN  IF n < YearStart(y) THEN y - 1 ELSE y

\* the month (1..12) of day number n of year y: a month has at most 31
\* days, so the estimate is the month or the month before it
MonthOfDay(n, y) ==
    LET m == ((n - YearStart(y)) \div 31) + 1
    IN  IF m < 12 /\ n >= MonthStart(y, m + 1) THEN m + 1 ELSE m

getYear(date) == YearOfDay(date.day)

\* getMonth is 0-indexed, as in date-fns
getMonth(date) == MonthOfDay(date.day, getYear(date)) - 1

getDate(date) == date.day - MonthStart(getYear(date), getMonth(date) + 1) + 1

getQuarter(date) == (getMonth(date) \div 3) + 1

DateLE(a, b) == a.day < b.day \/ (a.day = b.day /\ a.tod <= b.tod)

\* weekStartsOn: 1 (Monday); day 0 is a Monday
startOfWeek(date) == [day |-> date.day - (date.day % 7), tod |-> 0]

endOfWeek(date) == [day |-> date.day - (date.day % 7) + 6, tod |-> LastTick]

startOfMonth(date) == MkDate(getYear(date), getMonth(date) + 1, 1)

\* variant: the last day of the month at midnight
endOfMonth_Midnight(date) ==
    LET y == getYear(date)
        m == getMonth(date) + 1
    IN  [day |-> MonthStart(y, m) + DaysInMonth(y, m) - 1, tod |-> 0]

endOfMonth(date) ==
    LET y == getYear(date)
        m == getMonth(date) + 1
    IN  [day |-> MonthStart(y, m) + DaysInMonth(y, m) - 1, tod |-> LastTick]

startOfQuarter(date) == MkDate(getYear(date), (getQuarter(date) - 1) * 3 + 1, 1)

endOfQuarter(date) ==
    endOfMonth(MkDate(getYear(date), (getQuarter(date) - 1) * 3 + 3, 1))

startOfYear(date) == MkDate(getYear(date), 1, 1)

endOfYear(date) == [day |-> YearStart(getYear(date) + 1) - 1, tod |-> LastTick]

addWeeks(date, n) == [day |-> date.day + 7 * n, tod |-> date.tod]

\* addMonths keeps the day of the month, clamped to the target month's length
addMonths(date, n) ==
    LET total == getYear(date) * 12 + getMonth(date) + n
        y == total \div 12
        m == (total % 12) + 1
        dim == DaysInMonth(y, m)
        d == IF getDate(date) > dim THEN dim ELSE getDate(date)
    IN  [day |-> MonthStart(y, m) + d - 1, tod |-> date.tod]

addYears(date, n) == addMonths(date, 12 * n)

\* getWeekYear with weekStartsOn 1 and firstWeekContainsDate 1
getWeekYear(date) ==
    LET year == getYear(date)
        startOfNextYear == startOfWeek(MkDate(year + 1, 1, 1))
        startOfThisYear == startOfWeek(MkDate(year, 1, 1))
    IN  IF DateLE(startOfNextYear, date) THEN year + 1
        ELSE IF DateLE(startOfThisYear, date) THEN year
        ELSE year - 1

startOfWeekYear(date) == startOfWeek(MkDate(getWeekYear(date), 1, 1))

\* variant: weeks counted in blocks of seven days from January 1st
getWeek_FromNewYear(date) ==
    ((date.day - YearStart(getYear(date))) \div 7) + 1

\* getWeek(date, { weekStartsOn: 1 })
getWeek(date) ==
    ((startOfWeek(date).day - startOfWeekYear(date).day) \div 7) + 1

\* 'now' lies in [start, end]
isWithinInterval(date, start, end) == DateLE(start, date) /\ DateLE(date, end)

MonthNames ==
    <<"january", "february", "march", "april", "may", "june", "july",
      "august", "september", "october", "november", "december">>

\* format(date, 'MMMM').toLowerCase()
formatMonthLower(date) == MonthNames[getMonth(date) + 1]

\* String(n).padStart(2, '0')
padStart2(n) == IF n >= 0 /\ n < 10 THEN "0" \o ToString(n) ELSE ToString(n)

(***************************************************************************)
(* Period calculator.  A period is a record; quarter, month and week are 0 *)
(* where the source leaves them undefined.  The label is display text only *)
(* and is not carried.                                                     *)
(***************************************************************************)
PeriodTypes == {"vision", "yearly", "quarterly", "monthly", "weekly"}

getCurrentPeriod(type, date) ==
    LET year == getYear(date) IN
    CASE type = "vision" ->
           [type |-> "vision", year |-> year + 2, quarter |-> 0, month |-> 0,
            week |-> 0, start |-> startOfYear(date),
            end |-> endOfYear(addYears(date, 2)), isCurrent |-> TRUE]
      [] type = "yearly" ->
           [type |-> "yearly", year |-> year, quarter |-> 0, month |-> 0,
            week |-> 0, start |-> startOfYear(date), end |-> endOfYear(date),
            isCurrent |-> TRUE]
      [] type = "quarterly" ->
           [type |-> "quarterly", year |-> year, quarter |-> getQuarter(date),
            month |-> 0, week |-> 0, start |-> startOfQuarter(date),
            end |-> endOfQuarter(date), isCurrent |-> TRUE]
      [] type = "monthly" ->
           [type |-> "monthly", year |-> year, quarter |-> getQuarter(date),
            month |-> getMonth(date) + 1, week |-> 0,
            start |-> startOfMonth(date), end |-> endOfMonth(date),
            isCurrent |-> TRUE]
      [] type = "weekly" ->
           [type |-> "weekly", year |-> year, quarter |-> getQuarter(date),
            month |-> getMonth(date) + 1, week |-> getWeek(date),
            start |-> startOfWeek(date), end |-> endOfWeek(date),
            isCurrent |-> TRUE]

\* period.isCurrent = isWithinInterval(now, { start, end })
WithCurrent(period, nowDate) ==
    [period EXCEPT !.isCurrent = isWithinInterval(nowDate, period.start, period.end)]

\* the weekly loop of getPeriodsForYear
RECURSIVE WeeksOfYear(_, _, _)
WeeksOfYear(weekDate, year, nowDate) ==
    IF getYear(weekDate) = year
    THEN LET period == getCurrentPeriod("weekly", weekDate)
             rest == WeeksOfYear(addWeeks(weekDate, 1), year, nowDate)
         IN  IF period.year = year
             THEN <<WithCurrent(period, nowDate)>> \o rest
             ELSE rest
    ELSE <<>>

\* variant: the monthly loop stops one month early
getPeriodsForYear_ElevenMonths(type, year, nowDate) ==
    CASE type = "quarterly" ->
           [q \in 1..4 |->
              WithCurrent(getCurrentPeriod("quarterly", MkDate(year, (q - 1) * 3 + 1, 1)),
                          nowDate)]
      [] type = "monthly" ->
           [m \in 1..11 |->
              WithCurrent(getCurrentPeriod("monthly", MkDate(year, m, 1)), nowDate)]
      [] type = "weekly" ->
           WeeksOfYear(startOfYear(MkDate(year, 1, 1)), year, nowDate)
      [] OTHER -> <<>>

getPeriodsForYear(type, year, nowDate) ==
    CASE type = "quarterly" ->
           [q \in 1..4 |->
              WithCurrent(getCurrentPeriod("quarterly", MkDate(year, (q - 1) * 3 + 1, 1)),
                          nowDate)]
      [] type = "monthly" ->
           [m \in 1..12 |->
              WithCurrent(getCurrentPeriod("monthly", MkDate(year, m, 1)), nowDate)]
      [] type = "weekly" ->
           WeeksOfYear(startOfYear(MkDate(year, 1, 1)), year, nowDate)
      [] OTHER -> <<>>

\* variant: a yearly period has no parent
getParentPeriod_YearIsRoot(period) ==
    CASE period.type = "weekly" -> <<getCurrentPeriod("monthly", period.start)>>
      [] period.type = "monthly" -> <<getCurrentPeriod("quarterly", period.start)>>
      [] period.type = "quarterly" -> <<getCurrentPeriod("yearly", period.start)>>
      [] period.type = "yearly" -> <<>>
      [] period.type = "vision" -> <<>>

\* null is the empty sequence, a period p the sequence <<p>>
getParentPeriod(period) ==
    CASE period.type = "weekly" -> <<getCurrentPeriod("monthly", period.start)>>
      [] period.type = "monthly" -> <<getCurrentPeriod("quarterly", period.start)>>
      [] period.type = "quarterly" -> <<getCurrentPeriod("yearly", period.start)>>
      [] period.type = "yearly" -> <<getCurrentPeriod("vision", period.start)>>
      [] period.type = "vision" -> <<>>

RECURSIVE YearsOfVision(_, _)
YearsOfVision(yearDate, period) ==
    IF DateLE(yearDate, period.end)
    THEN <<getCurrentPeriod("yearly", yearDate)>>
           \o YearsOfVision(addYears(yearDate, 1), period)
    ELSE <<>>

RECURSIVE MonthsOfQuarter(_, _)
MonthsOfQuarter(monthDate, period) ==
    IF DateLE(monthDate, period.end)
    THEN <<getCurrentPeriod("monthly", monthDate)>>
           \o MonthsOfQuarter(addMonths(monthDate, 1), period)
    ELSE <<>>

RECURSIVE WeeksOfMonth(_, _)
WeeksOfMonth(weekDate, period) ==
    IF DateLE(weekDate, period.end)
    THEN LET weekPeriod == getCurrentPeriod("weekly", weekDate)
             rest == WeeksOfMonth(addWeeks(weekDate, 1), period)
         IN  IF DateLE(period.start, weekPeriod.start) \/ DateLE(weekPeriod.end, period.end)
             THEN <<weekPeriod>> \o rest
             ELSE rest
    ELSE <<>>

getChildPeriods(period, nowDate) ==
    CASE period.type = "vision" -> YearsOfVision(period.start, period)
      [] period.type = "yearly" -> getPeriodsForYear("quarterly", period.year, nowDate)
      [] period.type = "quarterly" -> MonthsOfQuarter(period.start, period)
      [] period.type = "monthly" -> WeeksOfMonth(period.start, period)
      [] period.type = "weekly" -> <<>>

periodToPath(period) ==
    CASE period.type = "vision" -> "vision/" \o ToString(period.year) \o ".md"
      [] period.type = "yearly" -> "goals/" \o ToString(period.year) \o "/yearly.md"
      [] period.type = "quarterly" ->
           "goals/" \o ToString(period.year) \o "/q" \o ToString(period.quarter)
             \o "/quarterly.md"
      [] period.type = "monthly" ->
           "goals/" \o ToString(period.year) \o "/q" \o ToString(period.quarter)
             \o "/" \o formatMonthLower(period.start) \o "/monthly.md"
      [] period.type = "weekly" ->
           "goals/" \o ToString(period.year) \o "/q" \o ToString(period.quarter)
             \o "/" \o formatMonthLower(period.start) \o "/week-"
             \o padStart2(period.week) \o ".md"

\* one iteration of the while (true) loop of getPeriodHierarchy:
\* the hierarchy after unshift(parent), or the same hierarchy at break
hierarchyStep(hierarchy) ==
    LET parent == getParentPeriod(hierarchy[1])
    IN  IF parent = <<>> THEN hierarchy ELSE parent \o hierarchy

\* Math.ceil(month / 3)
CeilDiv3(month) == (month + 2) \div 3

\* getFilePath of the new-goal form, over the form state
getFilePath(selectedPeriod, year, month, quarter, week) ==
    LET monthName == formatMonthLower(MkDate(year, month, 1)) IN
    CASE selectedPeriod = "vision" -> "vision/" \o ToString(year + 2) \o ".md"
      [] selectedPeriod = "yearly" -> "goals/" \o ToString(year) \o "/yearly.md"
      [] selectedPeriod = "quarterly" ->
           "goals/" \o ToString(year) \o "/q" \o ToString(quarter) \o "/quarterly.md"
      [] selectedPeriod = "monthly" ->
           "goals/" \o ToString(year) \o "/q" \o ToString(CeilDiv3(month))
             \o "/" \o monthName \o "/monthly.md"
      [] selectedPeriod = "weekly" ->
           "goals/" \o ToString(year) \o "/q" \o ToString(CeilDiv3(month))
             \o "/" \o monthName \o "/week-" \o padStart2(week) \o ".md"
      [] OTHER -> ""

\* the path the agent's writeGoal tool writes to; an absent optional
\* argument is 0
writeGoalToolPath(args) ==
    LET base == getCurrentPeriod(args.periodType,
                                 MkDate(args.year, IF args.month # 0 THEN args.month ELSE 1, 1))
        p1 == IF args.quarter # 0 THEN [base EXCEPT !.quarter = args.quarter] ELSE base
        p2 == IF args.month # 0 THEN [p1 EXCEPT !.month = args.month] ELSE p1
        p3 == IF args.week # 0 THEN [p2 EXCEPT !.week = args.week] ELSE p2
        period == [p3 EXCEPT !.year = args.year]
    IN  periodToPath(period)

(***************************************************************************)
(* The period calculator as a state machine: the inputs (period type,      *)
(* anchor date, current time) are drawn in Init, every action applies one  *)
(* exported function to them and records what it returned.                 *)
(***************************************************************************)
Anchors ==
    {[day |-> n, tod |-> t] :
        n \in 0..(YearStart(EpochYear + NumYears) - 1), t \in 0..LastTick}

\* the current time of the run
NowDates == {[day |-> MkDate(EpochYear + 1, 1, 15).day, tod |-> LastTick]}

NoRequest ==
    [pc |-> "idle", taskId |-> "", completed |-> FALSE,
     before |-> <<>>, goal |-> <<>>, updatedContent |-> <<>>, response |-> 0]

\* the period the operations are applied to
thePeriod == getCurrentPeriod(ptype, anchor)

\* the period fields as the form state and the tool arguments carry them
\* (year, month, quarter and week of the date, as the form's defaults and
\* the agent's system prompt compute them)
formYear == getYear(anchor)

formMonth == getMonth(anchor) + 1

formQuarter == getQuarter(anchor)

formWeek == getWeek(anchor)

toolArgs ==
    [periodType |-> ptype, year |-> formYear,
     quarter |-> IF ptype \in {"quarterly", "monthly", "weekly"} THEN formQuarter ELSE 0,
     month |-> IF ptype \in {"monthly", "weekly"} THEN formMonth ELSE 0,
     week |-> IF ptype = "weekly" THEN formWeek ELSE 0]

InitPeriod ==
    /\ now \in NowDates
    /\ ptype \in PeriodTypes
    /\ anchor \in Anchors
    /\ op = "init"
    /\ out = <<>>
    /\ paths = <<>>
    /\ store = <<>>
    /\ req = NoRequest

Returned(name, periods, strings) ==
    /\ op' = name
    /\ out' = periods
    /\ paths' = strings
    /\ UNCHANGED <<now, ptype, anchor, store, req>>

GetCurrentPeriod ==
    /\ op = "init"
    /\ Returned("getCurrentPeriod", <<thePeriod>>, <<>>)

\* the year asked for is the anchor's; each year is asked for once
GetPeriodsForYear ==
    /\ op = "init"
    /\ anchor = MkDate(getYear(anchor), 1, 1)
    /\ Returned("getPeriodsForYear", getPeriodsForYear(ptype, getYear(anchor), now), <<>>)

GetParentPeriod ==
    /\ op = "init"
    /\ Returned("getParentPeriod", getParentPeriod(thePeriod), <<>>)

GetChildPeriods ==
    /\ op = "init"
    /\ Returned("getChildPeriods", getChildPeriods(thePeriod, now), <<>>)

\* getGoalForPeriod(getCurrentPeriod(type, date)): the path a goal is looked up at
GetGoalForPeriod ==
    /\ op = "init"
    /\ Returned("getGoalForPeriod", <<thePeriod>>, <<periodToPath(thePeriod)>>)

\* the new-goal form saving a goal of the anchor's period
NewGoalForm ==
    /\ op = "init"
    /\ Returned("getFilePath", <<>>,
                <<getFilePath(ptype, formYear, formMonth, formQuarter, formWeek)>>)

\* the agent's writeGoal tool called for the anchor's period
WriteGoalTool ==
    /\ op = "init"
    /\ Returned("writeGoalTool", <<>>, <<writeGoalToolPath(toolArgs)>>)

\* getPeriodHierarchy: hierarchy = [period], then the loop
HierarchyStart ==
    /\ op = "init"
    /\ Returned("getPeriodHierarchy:loop", <<thePeriod>>, <<>>)

\* one iteration: break and return when the parent is null, else unshift it
HierarchyStep ==
    /\ op = "getPeriodHierarchy:loop"
    /\ IF getParentPeriod(out[1]) = <<>>
       THEN Returned("getPeriodHierarchy", out, <<>>)
       ELSE Returned("getPeriodHierarchy:loop", hierarchyStep(out), <<>>)

\* getReflectionPath
getReflectionPath(period) ==
    LET year == ToString(period.year)
        quarter == IF period.quarter # 0 THEN period.quarter
                   ELSE CeilDiv3(IF period.month # 0 THEN period.month ELSE 1)
        monthName == IF period.month # 0 THEN MonthNames[period.month] ELSE ""
    IN  CASE period.type = "yearly" -> "reflections/" \o year \o "/yearly-reflection.md"
          [] period.type = "quarterly" ->
               "reflections/" \o year \o "/q" \o ToString(quarter) \o "/quarterly-reflection.md"
          [] period.type = "monthly" ->
               "reflections/" \o year \o "/q" \o ToString(quarter) \o "/" \o monthName
                 \o "/monthly-reflection.md"
          [] period.type = "weekly" ->
               "reflections/" \o year \o "/q" \o ToString(quarter) \o "/" \o monthName
                 \o "/week-" \o padStart2(period.week) \o "-reflection.md"
          [] OTHER -> "reflections/" \o year \o "/reflection.md"

\* the writeReflection tool: the period of the first of the month with the
\* arguments written over it, then getReflectionPath
writeReflectionToolPath(args) ==
    LET base == getCurrentPeriod(args.periodType,
                                 MkDate(args.year, IF args.month # 0 THEN args.month ELSE 1, 1))
        p1 == IF args.quarter # 0 THEN [base EXCEPT !.quarter = args.quarter] ELSE base
        p2 == IF args.month # 0 THEN [p1 EXCEPT !.month = args.month] ELSE p1
        p3 == IF args.week # 0 THEN [p2 EXCEPT !.week = args.week] ELSE p2
    IN  getReflectionPath([p3 EXCEPT !.year = args.year])

\* the path handleComplete of the new-reflection form builds
reflectionFormPath(selectedType, year, week, month, quarter) ==
    "reflections/" \o ToString(year) \o "/" \o
      (CASE selectedType = "weekly" -> "week-" \o padStart2(week) \o "-reflection.md"
         [] selectedType = "monthly" ->
              MonthNames[IF month # 0 THEN month ELSE 1] \o "-reflection.md"
         [] selectedType = "quarterly" -> "q" \o ToString(quarter) \o "-reflection.md"
         [] selectedType = "yearly" -> "yearly-reflection.md"
         [] OTHER -> "")

\* the periodData getAvailablePeriods gives the anchor's period: a week with
\* the month Math.ceil(w / 4.33), a month, a quarter, or nothing
reflectionPeriodData ==
    [week |-> IF ptype = "weekly" THEN formWeek ELSE 0,
     month |-> IF ptype = "weekly" THEN (100 * formWeek + 432) \div 433
               ELSE IF ptype = "monthly" THEN formMonth ELSE 0,
     quarter |-> IF ptype = "quarterly" THEN formQuarter ELSE 0]

\* the new-reflection form completing a reflection on the anchor's period
NewReflectionForm ==
    /\ op = "init"
    /\ ptype \in {"weekly", "monthly", "quarterly", "yearly"}
    /\ Returned("handleComplete", <<>>,
                <<reflectionFormPath(ptype, formYear, reflectionPeriodData.week,
                                     reflectionPeriodData.month, reflectionPeriodData.quarter)>>)

\* the agent's writeReflection tool called for the anchor's period
WriteReflectionTool ==
    /\ op = "init"
    /\ Returned("writeReflectionTool", <<>>, <<writeReflectionToolPath(toolArgs)>>)

NextPeriod ==
    \/ GetCurrentPeriod
    \/ GetPeriodsForYear
    \/ GetParentPeriod
    \/ GetChildPeriods
    \/ GetGoalForPeriod
    \/ NewGoalForm
    \/ WriteGoalTool
    \/ NewReflectionForm
    \/ WriteReflectionTool
    \/ HierarchyStart
    \/ HierarchyStep

Spec == InitPeriod /\ [][NextPeriod]_vars

(***************************************************************************)
(* Properties of the period calculator                                     *)
(***************************************************************************)

\* C1: parent/child is a consistent round trip: for every non-terminal
\* period p of getCurrentPeriod and every child c of getChildPeriods(p),
\* getParentPeriod(c) has the type of p and the path of p.
C1_ParentOfChildIsPeriod ==
    op = "getChildPeriods" =>
        \A i \in 1..Len(out) :
            LET parent == getParentPeriod(out[i])
            IN  /\ parent # <<>>
                /\ parent[1].type = ptype
                /\ periodToPath(parent[1]) = periodToPath(thePeriod)

\* C2: the storage path of a weekly goal is the same for every producer and
\* consumer: the new-goal form and the agent's writeGoal tool write to the
\* path getCurrentGoals looks the goal up at, for every date of the week.
C2_ProducersAgreeWithLookup ==
    (ptype = "weekly" /\ op \in {"getFilePath", "writeGoalTool"}) =>
        paths[1] = periodToPath(getCurrentPeriod("weekly", anchor))

\* the path table of the documentation, the month directory named after the
\* period's month field
TablePath(period) ==
    LET y == ToString(period.year)
        q == ToString(period.quarter)
    IN  CASE period.type = "vision" -> "vision/" \o y \o ".md"
          [] period.type = "yearly" -> "goals/" \o y \o "/yearly.md"
          [] period.type = "quarterly" -> "goals/" \o y \o "/q" \o q \o "/quarterly.md"
          [] period.type = "monthly" ->
               "goals/" \o y \o "/q" \o q \o "/" \o MonthNames[period.month] \o "/monthly.md"
          [] period.type = "weekly" ->
               "goals/" \o y \o "/q" \o q \o "/" \o MonthNames[period.month] \o "/week-"
                 \o (IF period.week < 10 THEN "0" ELSE "") \o ToString(period.week) \o ".md"

\* C3: periodToPath follows the path table for every period returned by
\* getCurrentPeriod; a weekly file lies in the directory of the month named
\* by the period's month field.
C3_PathFollowsTable ==
    op = "getGoalForPeriod" => paths[1] = TablePath(out[1])

\* C4: a period contains its anchor date: start <= d <= end for yearly,
\* quarterly, monthly and weekly, start <= d for vision.
C4_PeriodContainsAnchor ==
    op = "getCurrentPeriod" =>
        /\ DateLE(out[1].start, anchor)
        /\ ptype # "vision" => DateLE(anchor, out[1].end)

C4_Witness ==
    /\ op = "getCurrentPeriod"
    /\ ptype = "weekly"
    /\ anchor = out[1].end
    /\ out[1].start.day < anchor.day

\* the week [start, start + 6] holds a January 1st
WeekHoldsNewYear(start) ==
    \E y \in FirstYear..LastYear : YearStart(y) \in start.day..(start.day + 6)

\* C5: weekly periods use Monday-start week numbering: start is the Monday
\* on or before d, end the following Sunday, year, month and quarter are the
\* calendar year, month and ceil(month / 3) of d; the week holding January
\* 1st is week 1 and every other week has the number after the week before
\* it (2025-01-15 is in week 3 of 2025).
C5_MondayWeeks ==
    (op = "getCurrentPeriod" /\ ptype = "weekly") =>
        LET p == out[1]
            weekBefore == getCurrentPeriod("weekly", [day |-> anchor.day - 7, tod |-> anchor.tod])
        IN  /\ p.start.day % 7 = 0
            /\ p.start.tod = 0
            /\ p.start.day <= anchor.day
            /\ anchor.day <= p.start.day + 6
            /\ p.end = [day |-> p.start.day + 6, tod |-> LastTick]
            /\ anchor.day \in YearStart(p.year)..(YearStart(p.year + 1) - 1)
            /\ p.month \in 1..12
            /\ anchor.day \in MonthStart(p.year, p.month)..
                   (MonthStart(p.year, p.month) + DaysInMonth(p.year, p.month) - 1)
            /\ p.quarter = CeilDiv3(p.month)
            /\ p.week = IF WeekHoldsNewYear(p.start) THEN 1 ELSE weekBefore.week + 1
            /\ anchor.day = MkDate(2025, 1, 15).day =>
                   (p.week = 3 /\ p.month = 1 /\ p.quarter = 1 /\ p.year = 2025)

C5_Witness ==
    /\ op = "getCurrentPeriod"
    /\ ptype = "weekly"
    /\ anchor.day = MkDate(2025, 1, 15).day
    /\ out[1].week = 3

\* C6: getPeriodsForYear returns 4 quarterly, 12 monthly and 52 or 53
\* weekly periods, all of the year asked for.
C6_PeriodsForYearCounts ==
    op = "getPeriodsForYear" =>
        /\ ptype = "quarterly" => Len(out) = 4
        /\ ptype = "monthly" => Len(out) = 12
        /\ ptype = "weekly" => Len(out) \in {52, 53}
        /\ \A i \in 1..Len(out) : out[i].year = getYear(anchor) /\ out[i].type = ptype

C6_Witness ==
    /\ op = "getPeriodsForYear"
    /\ ptype = "weekly"
    /\ Len(out) = 53
    /\ out[53].year = getYear(anchor)

HierarchyTypes == <<"vision", "yearly", "quarterly", "monthly", "weekly">>

Depth(type) == CHOOSE k \in 1..5 : HierarchyTypes[k] = type

\* the hierarchy built so far is the tail of the chain that ends with the period
C7_Chain ==
    op \in {"getPeriodHierarchy", "getPeriodHierarchy:loop"} =>
        /\ Len(out) \in 1..Depth(ptype)
        /\ out[Len(out)] = thePeriod
        /\ \A i \in 1..Len(out) : out[i].type = HierarchyTypes[Depth(ptype) - Len(out) + i]
        /\ op = "getPeriodHierarchy" =>
               /\ Len(out) = Depth(ptype)
               /\ out[1].type = "vision"
               /\ getParentPeriod(out[1]) = <<>>

\* C7: getPeriodHierarchy terminates and returns the ancestors in ascending
\* order, vision first, the period itself last: the list never exceeds the
\* depth of the period's type, every iteration of the loop that does not
\* return adds one ancestor, and the parent of a vision period is null.
C7_HierarchyAscendsAndTerminates ==
    /\ []C7_Chain
    /\ [][(op = "getPeriodHierarchy:loop" /\ op' = "getPeriodHierarchy:loop")
            => Len(out') = Len(out) + 1]_vars

C7_Witness ==
    /\ op = "getPeriodHierarchy"
    /\ ptype = "weekly"
    /\ Len(out) = 5
    /\ out[1].type = "vision"

(***************************************************************************)
(* Goal documents and task toggling.  A body is a sequence of characters   *)
(* (one-character strings); a line break is "\n".                          *)
(***************************************************************************)

\* \s of the regular expressions, over the characters that occur
IsSpace(c) == c \in {" ", "\t", "\r", "\n"}

\* . of the regular expressions: any character but a line terminator
IsDot(c) == c \notin {"\n", "\r"}

\* content.split('\n'): the lines before a line feed near the middle of
\* the text, then the lines after it
RECURSIVE split(_)
split(content) ==
    LET feeds == {i \in 1..Len(content) : content[i] = "\n"}
    IN  IF feeds = {} THEN <<content>>
        ELSE LET i == CHOOSE j \in feeds : \A k \in feeds :
                          (j - k) * (j + k - Len(content)) <= 0
             IN  split(SubSeq(content, 1, i - 1)) \o split(SubSeq(content, i + 1, Len(content)))

\* lines.join('\n')
RECURSIVE join(_)
join(lines) ==
    IF Len(lines) = 0 THEN <<>>
    ELSE IF Len(lines) = 1 THEN lines[1]
    ELSE lines[1] \o <<"\n">> \o join(Tail(lines))

\* String.prototype.trim
RECURSIVE trim(_)
trim(str) ==
    IF Len(str) = 0 THEN str
    ELSE IF IsSpace(str[1]) THEN trim(Tail(str))
    ELSE IF IsSpace(str[Len(str)]) THEN trim(SubSeq(str, 1, Len(str) - 1))
    ELSE str

\* index of the first character at or after i that is not white space
RECURSIVE skipSpace(_, _)
skipSpace(line, i) ==
    IF i <= Len(line) /\ IsSpace(line[i]) THEN skipSpace(line, i + 1) ELSE i

\* \s*.+$ on the rest of the line after the closing bracket: the number of
\* leading white-space characters \s* takes (as many as leave .+ a
\* non-empty match up to the end of the line), or -1 when nothing matches
restMatch(rest) ==
    LET ok == {j \in 0..(Len(rest) - 1) :
                  /\ \A i \in 1..j : IsSpace(rest[i])
                  /\ \A i \in (j + 1)..Len(rest) : IsDot(rest[i])}
    IN  IF ok = {} THEN -1 ELSE CHOOSE j \in ok : \A k \in ok : k <= j

\* /^[-*]\s*\[([ xX])\]\s*(.+)$/ and /^([-*]\s*\[)([ xX])(\]\s*.+)$/ : the
\* index of the character between the brackets, 0 when the line does not match
taskMatch(line) ==
    IF Len(line) >= 1 /\ line[1] \in {"-", "*"}
    THEN LET k == skipSpace(line, 2)
         IN  IF /\ k + 2 <= Len(line)
                /\ line[k] = "["
                /\ line[k + 1] \in {" ", "x", "X"}
                /\ line[k + 2] = "]"
                /\ restMatch(SubSeq(line, k + 3, Len(line))) >= 0
             THEN k + 1
             ELSE 0
    ELSE 0

\* the text group of the parse pattern
taskText(line) ==
    LET b == taskMatch(line)
        rest == SubSeq(line, b + 2, Len(line))
    IN  SubSeq(rest, restMatch(rest) + 1, Len(rest))

\* `task-${n}`
taskIdOf(n) == "task-" \o ToString(n)

startsWithSection(line) ==
    Len(line) >= 4 /\ SubSeq(line, 1, 4) = <<"#", "#", "#", " ">>

\* the loop of parseTasks over the lines from index i on; an undefined
\* section is the empty sequence
RECURSIVE parseLines(_, _, _, _)
parseLines(lines, i, currentSection, taskId) ==
    IF i > Len(lines) THEN <<>>
    ELSE IF startsWithSection(lines[i])
    THEN parseLines(lines, i + 1, trim(SubSeq(lines[i], 5, Len(lines[i]))), taskId)
    ELSE IF taskMatch(lines[i]) # 0
    THEN <<[id |-> taskIdOf(taskId),
            text |-> trim(taskText(lines[i])),
            completed |-> lines[i][taskMatch(lines[i])] \in {"x", "X"},
            section |-> currentSection]>>
           \o parseLines(lines, i + 1, currentSection, taskId + 1)
    ELSE parseLines(lines, i + 1, currentSection, taskId)

\* variant: the counter starts at one
parseTasks_FromOne(content) == parseLines(split(content), 1, <<>>, 1)

parseTasks(content) == parseLines(split(content), 1, <<>>, 0)

\* variant: the line is rewritten in the canonical "- [x] text" form
rewriteLine_Canonical(line, completed) ==
    <<"-", " ", "[", IF completed THEN "x" ELSE " ", "]", " ">> \o trim(taskText(line))

\* `${taskMatch[1]}${completed ? 'x' : ' '}${taskMatch[3]}`
rewriteLine(line, completed) ==
    LET b == taskMatch(line)
    IN  SubSeq(line, 1, b - 1) \o <<IF completed THEN "x" ELSE " ">>
          \o SubSeq(line, b + 1, Len(line))

\* the loop of updateTaskInContent over the lines from index i on
RECURSIVE updateLines(_, _, _, _, _)
updateLines(lines, i, taskIndex, taskId, completed) ==
    IF i > Len(lines) THEN lines
    ELSE IF taskMatch(lines[i]) # 0
    THEN IF taskIdOf(taskIndex) = taskId
         THEN [lines EXCEPT ![i] = rewriteLine(lines[i], completed)]
         ELSE updateLines(lines, i + 1, taskIndex + 1, taskId, completed)
    ELSE updateLines(lines, i + 1, taskIndex, taskId, completed)

\* variant: the check boxes are counted from one
updateTaskInContent_FromOne(content, taskId, completed) ==
    join(updateLines(split(content), 1, 1, taskId, completed))

updateTaskInContent(content, taskId, completed) ==
    join(updateLines(split(content), 1, 0, taskId, completed))

GoalStatus == {"not-started", "in-progress", "completed", "abandoned"}

\* the one goal document of the model; the store is <<>> while it does not
\* exist and <<[status, content]>> when it does
\* readMarkdownFile / readGoal: null (<<>>) or the goal with its trimmed body
readGoal(files) ==
    IF files = <<>> THEN <<>>
    ELSE <<[status |-> files[1].status, content |-> trim(files[1].content)]>>

\* writeGoal / writeMarkdownFile: the document replaced as a whole (the
\* updated timestamp is not carried)
writeGoal(status, content) == <<[status |-> status, content |-> content]>>

\* variant: unchecking a task resets the status
patchStatus_Resets(goalStatus, completed) ==
    IF completed THEN "in-progress" ELSE "not-started"

\* the frontmatter status PATCH writes back
patchStatus(goalStatus, completed) ==
    IF completed THEN "in-progress" ELSE goalStatus

\* the lines bodies are made of: a check box, one with * and X, a section
\* header, and an indented check box without blanks, which the pattern
\* rejects unless trim removes the indentation
LineSet ==
    { <<"-", " ", "[", " ", "]", " ", "a">>,
      <<"*", " ", "[", "X", "]", " ", "b">>,
      <<"#", "#", "#", " ", "S">>,
      <<" ", "-", "[", "x", "]", "a">> }

RECURSIVE LineSeqs(_)
LineSeqs(n) ==
    IF n = 0 THEN {<<>>}
    ELSE LET shorter == LineSeqs(n - 1)
         IN  shorter \cup {<<l>> \o ls : l \in LineSet, ls \in {x \in shorter : Len(x) = n - 1}}

\* the bodies a producer writes: 1..MaxLines lines, not the empty string
Contents == {join(ls) : ls \in LineSeqs(MaxLines) \ {<<>>}} \ {<<>>}

\* the task ids a client sends: a missing one, the ids of the positions a
\* body can have, and one no body has
TaskIds == {""} \cup {taskIdOf(n) : n \in 0..MaxLines}

InitGoal ==
    /\ now \in NowDates
    /\ ptype = "weekly"
    /\ anchor = now
    /\ op = "init"
    /\ out = <<>>
    /\ paths = <<>>
    /\ store = <<>>
    /\ req = NoRequest

\* a producer (writeGoal tool, new-goal form) creates the document with
\* status not-started
CreateGoal(content) ==
    /\ store = <<>>
    /\ req.pc \in {"idle", "done"}
    /\ store' = writeGoal("not-started", content)
    /\ UNCHANGED <<req, periodVars>>

\* POST /api/goals: the document written back with the frontmatter the
\* client sends, here its body and another status
PostGoal(status) ==
    /\ store # <<>>
    /\ req.pc \in {"idle", "done"}
    /\ status # store[1].status
    /\ store' = writeGoal(status, store[1].content)
    /\ UNCHANGED <<req, periodVars>>

\* PATCH /api/goals up to the update: the body is validated (400 when a
\* field is missing) and the goal is read (404 when there is none)
PatchStart(taskId, completed) ==
    /\ req.pc \in {"idle", "done"}
    /\ req' = IF taskId = ""
              THEN [NoRequest EXCEPT !.pc = "done", !.response = 400]
              ELSE IF readGoal(store) = <<>>
              THEN [NoRequest EXCEPT !.pc = "done", !.response = 404]
              ELSE [NoRequest EXCEPT !.pc = "writeGoal", !.taskId = taskId,
                                     !.completed = completed, !.before = store,
                                     !.goal = readGoal(store)]
    /\ UNCHANGED <<store, periodVars>>

\* updateTaskInContent, the status, await writeGoal
PatchWrite ==
    /\ req.pc = "writeGoal"
    /\ LET updatedContent == updateTaskInContent(req.goal[1].content, req.taskId, req.completed)
       IN  /\ store' = writeGoal(patchStatus(req.goal[1].status, req.completed), updatedContent)
           /\ req' = [req EXCEPT !.pc = "readUpdated", !.updatedContent = updatedContent]
    /\ UNCHANGED periodVars

\* const updatedGoal = await readGoal(path); the response
PatchRespond ==
    /\ req.pc = "readUpdated"
    /\ req' = [NoRequest EXCEPT !.pc = "done", !.response = 200]
    /\ UNCHANGED <<store, periodVars>>

NextGoal ==
    \/ \E content \in Contents : CreateGoal(content)
    \/ \E status \in GoalStatus : PostGoal(status)
    \/ \E taskId \in TaskIds, completed \in BOOLEAN : PatchStart(taskId, completed)
    \/ PatchWrite
    \/ PatchRespond

\* requests are served one at a time
SpecGoal == InitGoal /\ [][NextGoal]_vars

(***************************************************************************)
(* Properties of task toggling                                             *)
(***************************************************************************)

\* the request has written the document back and not yet answered
Toggled == req.pc = "readUpdated"

\* the request's task id is one parseTasks assigns in the body it read
ValidTaskId ==
    \E i \in 1..Len(parseTasks(req.goal[1].content)) :
        parseTasks(req.goal[1].content)[i].id = req.taskId

\* number of characters of the body before line i
RECURSIVE LineOffset(_, _)
LineOffset(lines, i) ==
    IF i = 1 THEN 0 ELSE LineOffset(lines, i - 1) + Len(lines[i - 1]) + 1

\* index in the body of the character between the brackets of the check-box
\* line that holds the task with the given id
BracketIndex(content, taskId) ==
    LET lines == split(content)
        boxes == {i \in 1..Len(lines) : taskMatch(lines[i]) # 0}
        n == CHOOSE k \in 1..Len(parseTasks(content)) : parseTasks(content)[k].id = taskId
        i == CHOOSE j \in boxes : Cardinality({b \in boxes : b < j}) = n - 1
    IN  LineOffset(lines, i) + taskMatch(lines[i])

\* C8: updateTaskInContent changes only the check-box character of the task
\* with the given id: the result has the length of the content, holds x or a
\* blank between the brackets of that line and is the content everywhere else.
C8_OnlyTheCheckboxChanges ==
    (Toggled /\ ValidTaskId) =>
        LET content == req.goal[1].content
            pos == BracketIndex(content, req.taskId)
        IN  /\ Len(req.updatedContent) = Len(content)
            /\ req.updatedContent[pos] = IF req.completed THEN "x" ELSE " "
            /\ \A k \in 1..Len(content) : k # pos => req.updatedContent[k] = content[k]

C8_Witness ==
    /\ Toggled
    /\ ValidTaskId
    /\ req.taskId = taskIdOf(1)
    /\ req.updatedContent # req.goal[1].content
    /\ Len(split(req.goal[1].content)) = MaxLines

\* C9: a toggle whose task id matches no check-box line is a silent no-op:
\* updateTaskInContent returns the content unchanged and the request leaves
\* the stored document's body and status as they were.
C9_UnknownTaskIsNoOp ==
    (Toggled /\ ~ValidTaskId) =>
        /\ req.updatedContent = req.goal[1].content
        /\ readGoal(store) = readGoal(req.before)

\* what a toggle does to the status
C10_ToggleStatus ==
    Toggled =>
        store[1].status = IF req.completed THEN "in-progress" ELSE req.before[1].status

\* C10: status lifecycle under task toggles, requests served one at a time:
\* a toggle with completed = true sets the status to in-progress, one with
\* completed = false leaves it unchanged, and no toggle takes the status
\* from in-progress back to not-started.
C10_StatusLifecycle ==
    /\ []C10_ToggleStatus
    /\ [][(req.pc = "writeGoal" /\ req'.pc = "readUpdated" /\ store[1].status = "in-progress")
            => store'[1].status # "not-started"]_vars

C10_Witness ==
    /\ Toggled
    /\ req.completed
    /\ req.before[1].status = "not-started"
    /\ store[1].status = "in-progress"

\* ---------------------------------------------------------------------
\* The task list of a body: parseTasks, the task editor of the goal page
\* ---------------------------------------------------------------------

\* lines of the bodies parseTasks is given: check-box lines in their
\* spellings, a section header, an empty header, plain text, a box without
\* text, a box whose text is white space, a line that ends in a carriage
\* return
TaskLineSet ==
    { <<"-", " ", "[", " ", "]", " ", "a">>,
      <<"*", " ", "[", "X", "]", " ", "b", " ">>,
      <<"-", "[", "x", "]", "a", " ", "b">>,
      <<"#", "#", "#", " ", "S", " ">>,
      <<"#", "#", "#", " ">>,
      <<"t">>,
      <<"-", " ", "[", "x", "]">>,
      <<"-", " ", "[", " ", "]", " ", " ">>,
      <<"-", " ", "[", " ", "]", " ", "a", "\r">> }

\* the months of the monthly goals edited: marts, maj, december
EditedMonths == {3, 5, 12}

RECURSIVE TaskLineSeqs(_)
TaskLineSeqs(n) ==
    IF n = 0 THEN {<<>>}
    ELSE LET shorter == TaskLineSeqs(n - 1)
         IN  shorter \cup {<<l>> \o ls : l \in TaskLineSet, ls \in {x \in shorter : Len(x) = n - 1}}

TaskBodies == {join(ls) : ls \in TaskLineSeqs(MaxLines)}

\* a goal document with the body under examination
InitTasks ==
    /\ now \in NowDates
    /\ ptype \in {"weekly", "monthly"}
    /\ anchor \in IF ptype = "weekly" THEN {now}
                 ELSE {MkDate(getYear(now), m, 1) : m \in EditedMonths}
    /\ op = "init"
    /\ out = <<>>
    /\ paths = <<>>
    /\ store \in {writeGoal("not-started", body) : body \in TaskBodies}
    /\ req = NoRequest

\* tasks: parseTasks(file.content)
ParseTasks ==
    /\ op = "init"
    /\ op' = "parseTasks"
    /\ out' = parseTasks(store[1].content)
    /\ UNCHANGED <<now, ptype, anchor, paths, store, req>>

\* const monthNames = ['januar', ...] of buildMarkdownContent
monthNames ==
    << <<"j", "a", "n", "u", "a", "r">>,
       <<"f", "e", "b", "r", "u", "a", "r">>,
       <<"m", "a", "r", "t", "s">>,
       <<"a", "p", "r", "i", "l">>,
       <<"m", "a", "j">>,
       <<"j", "u", "n", "i">>,
       <<"j", "u", "l", "i">>,
       <<"a", "u", "g", "u", "s", "t">>,
       <<"s", "e", "p", "t", "e", "m", "b", "e", "r">>,
       <<"o", "k", "t", "o", "b", "e", "r">>,
       <<"n", "o", "v", "e", "m", "b", "e", "r">>,
       <<"d", "e", "c", "e", "m", "b", "e", "r">> >>

\* toUpperCase on the letters month names begin with
toUpperCase(c) ==
    CASE c = "j" -> "J" [] c = "f" -> "F" [] c = "m" -> "M" [] c = "a" -> "A"
      [] c = "s" -> "S" [] c = "o" -> "O" [] c = "n" -> "N" [] c = "d" -> "D"
      [] OTHER -> c

\* variant: every task is written unchecked
taskLine_Unchecked(t) == <<"-", " ", "[", " ", "]", " ">> \o t.text

\* `- [${t.completed ? 'x' : ' '}] ${t.text}`
taskLine(t) == <<"-", " ", "[", IF t.completed THEN "x" ELSE " ", "]", " ">> \o t.text

\* buildMarkdownContent for a monthly or weekly goal: the period header and
\* one line per task of the editor; month 0 is a frontmatter without month
buildTaskContent(period, month, editTasks) ==
    LET header ==
            IF period = "monthly" /\ month # 0
            THEN LET monthName == monthNames[month]
                     capitalizedMonth == <<toUpperCase(monthName[1])>> \o Tail(monthName)
                 IN  <<"#", "#", " ">> \o capitalizedMonth \o <<" ", "m", "å", "l", "\n", "\n">>
            ELSE IF period = "weekly" THEN <<"#", "#", " ", "U", "g", "e", "n", "s", " ", "m", "å", "l", "\n", "\n">>
            ELSE <<>>
    IN  header \o join([i \in 1..Len(editTasks) |-> taskLine(editTasks[i])])

\* initializeEditingState: setEditTasks(goalData.tasks.map(...))
StartEditing ==
    /\ op = "parseTasks"
    /\ op' = "editing"
    /\ out' = [i \in 1..Len(out) |->
                  [id |-> out[i].id, text |-> out[i].text, completed |-> out[i].completed]]
    /\ UNCHANGED <<now, ptype, anchor, paths, store, req>>

\* buildMarkdownContent of the task editor: the goal's content replaced by
\* the text built from editTasks
BuildMarkdownContent ==
    /\ op = "editing"
    /\ op' = "buildMarkdownContent"
    /\ store' = writeGoal(store[1].status,
                          buildTaskContent(ptype, IF ptype = "monthly" THEN getMonth(anchor) + 1 ELSE 0, out))
    /\ UNCHANGED <<now, ptype, anchor, out, paths, req>>
NextTasks ==
    \/ ParseTasks
    \/ StartEditing
    \/ BuildMarkdownContent

SpecTasks == InitTasks /\ [][NextTasks]_vars

\* the lines of the body and, among them, the check-box lines
BodyLines == split(store[1].content)

BoxLines ==
    {i \in 1..Len(BodyLines) : ~startsWithSection(BodyLines[i]) /\ taskMatch(BodyLines[i]) # 0}

\* the line of the k-th check box, k counted from 0
BoxLine(k) == CHOOSE i \in BoxLines : Cardinality({b \in BoxLines : b < i}) = k

\* the text of the nearest '### ' header above line i, empty when there is none
SectionAbove(i) ==
    LET heads == {j \in 1..(i - 1) : startsWithSection(BodyLines[j])}
    IN  IF heads = {} THEN <<>>
        ELSE LET j == CHOOSE h \in heads : \A g \in heads : g <= h
             IN  trim(SubSeq(BodyLines[j], 5, Len(BodyLines[j])))

\* C11: parseTasks numbers the check-box lines in order of occurrence: the
\* list has one task per check-box line, the k-th (from 0) has id task-k,
\* is completed iff x or X stands between the brackets, has the trimmed rest
\* of the line as text and the text of the nearest header above as section;
\* headers and other lines do not advance the counter.
C11_IdsByOccurrence ==
    op = "parseTasks" =>
        /\ Len(out) = Cardinality(BoxLines)
        /\ \A k \in 0..(Len(out) - 1) :
              LET line == BodyLines[BoxLine(k)]
                  close == CHOOSE c \in 1..Len(line) :
                               line[c] = "]" /\ \A d \in 1..(c - 1) : line[d] # "]"
              IN  /\ out[k + 1].id = "task-" \o ToString(k)
                  /\ out[k + 1].completed = (line[close - 1] \in {"x", "X"})
                  /\ out[k + 1].text = trim(SubSeq(line, close + 1, Len(line)))
                  /\ out[k + 1].section = SectionAbove(BoxLine(k))

C11_Witness ==
    /\ op = "parseTasks"
    /\ Len(out) = 2
    /\ out[1].section = <<>>
    /\ out[2].section # <<>>
    /\ out[2].completed
    /\ BoxLine(1) = 3

\* C12: the tasks parsed from the text the task editor builds are the tasks
\* the editor held: the same number, and at every index the same text and
\* the same completed value.
C12_TaskRoundTrip ==
    op = "buildMarkdownContent" =>
        LET again == parseTasks(store[1].content)
        IN  /\ Len(again) = Len(out)
            /\ \A i \in 1..Len(out) :
                  /\ again[i].text = out[i].text
                  /\ again[i].completed = out[i].completed

C12_Witness ==
    /\ op = "buildMarkdownContent"
    /\ ptype = "monthly"
    /\ Len(out) = MaxLines
    /\ \E i \in 1..Len(out) : out[i].completed
    /\ \E i \in 1..Len(out) : ~out[i].completed /\ out[i].text = <<>>

\* ---------------------------------------------------------------------
\* calculateProgress: the arithmetic of JavaScript numbers (IEEE 754
\* binary64, round to nearest, ties to even) on the values the function
\* computes. A positive number is [mant, scale]: a mantissa of MantBits
\* bits, the first of them 1, most significant first, worth
\* mant * 2^(-scale); zero is [mant |-> <<>>, scale |-> 0].
\* ---------------------------------------------------------------------

MantBits == 53

\* the bits plus one; one bit longer when every bit is 1
IncBits(bits) ==
    LET zeros == {i \in 1..Len(bits) : bits[i] = 0}
    IN  IF zeros = {} THEN <<1>> \o [i \in 1..Len(bits) |-> 0]
        ELSE LET j == CHOOSE z \in zeros : \A y \in zeros : y <= z
             IN  [i \in 1..Len(bits) |-> IF i < j THEN bits[i] ELSE IF i = j THEN 1 ELSE 0]

Zeros(n) == [i \in 1..n |-> 0]

\* sum of two bit strings, one bit longer than the longer of them; the
\* carry into place i comes from a lower place where both have a 1, passed
\* on by places where either has one
AddBits(a, b) ==
    LET n == IF Len(a) > Len(b) THEN Len(a) ELSE Len(b)
        x == <<0>> \o Zeros(n - Len(a)) \o a
        y == <<0>> \o Zeros(n - Len(b)) \o b
        carry(i) == \E j \in (i + 1)..(n + 1) :
                        /\ x[j] = 1 /\ y[j] = 1
                        /\ \A k \in (i + 1)..(j - 1) : x[k] + y[k] >= 1
    IN  [i \in 1..(n + 1) |-> (x[i] + y[i] + (IF carry(i) THEN 1 ELSE 0)) % 2]

\* the exact product of a bit string and a natural number
RECURSIVE MulBits(_, _)
MulBits(bits, n) ==
    IF n = 0 THEN <<>>
    ELSE IF n % 2 = 0 THEN MulBits(bits, n \div 2) \o <<0>>
    ELSE AddBits(MulBits(bits, n - 1), bits)

StripZeros(bits) ==
    LET ones == {i \in 1..Len(bits) : bits[i] = 1}
    IN  IF ones = {} THEN <<>>
        ELSE SubSeq(bits, CHOOSE i \in ones : \A j \in ones : i <= j, Len(bits))

\* an exact positive value bits * 2^(-scale) rounded to MantBits bits;
\* up is whether the part cut off (with the bits still to come, rest) lies
\* above one half, or at one half with an odd mantissa
RoundBits(bits, scale, restIsZero) ==
    LET b == StripZeros(bits)
        k == Len(b) - MantBits
    IN  IF k <= 0 THEN [mant |-> b \o Zeros(-k), scale |-> scale - k]
        ELSE LET top == SubSeq(b, 1, MantBits)
                 low == SubSeq(b, MantBits + 1, Len(b))
                 above == \/ \E i \in 2..Len(low) : low[i] = 1
                          \/ ~restIsZero
                 up == low[1] = 1 /\ (above \/ top[MantBits] = 1)
                 inc == IF up THEN IncBits(top) ELSE top
             IN  IF Len(inc) > MantBits
                 THEN [mant |-> SubSeq(inc, 1, MantBits), scale |-> scale - k - 1]
                 ELSE [mant |-> inc, scale |-> scale - k]

\* 2^k modulo t
RECURSIVE Pow2Mod(_, _)
Pow2Mod(k, t) ==
    IF k = 0 THEN 1 % t
    ELSE LET h == Pow2Mod(k \div 2, t)
         IN  (h * h * (IF k % 2 = 1 THEN 2 ELSE 1)) % t

\* the first n + 1 bits of the binary expansion of c / t from the units bit
\* on, and the remainder left: bit i is the quotient of 2 * (c * 2^(i-1) mod t)
\* by t
Expand(c, t, n) ==
    [bits |-> [i \in 1..(n + 1) |->
                  IF i = 1 THEN c \div t
                  ELSE (2 * ((c * Pow2Mod(i - 2, t)) % t)) \div t],
     rem |-> (c * Pow2Mod(n, t)) % t]

\* number of doublings of r until it reaches t
RECURSIVE LeadingZeros(_, _)
LeadingZeros(r, t) == IF r >= t THEN 0 ELSE 1 + LeadingZeros(2 * r, t)

\* c / t for naturals 0 <= c <= t, 0 < t
fdiv(c, t) ==
    IF c = 0 THEN [mant |-> <<>>, scale |-> 0]
    ELSE LET z == LeadingZeros(c, t)
             e == Expand(c, t, z + MantBits)
         IN  RoundBits(e.bits, z + MantBits, e.rem = 0)

\* x * n for a natural number n
fmul(x, n) ==
    IF x.mant = <<>> THEN x
    ELSE RoundBits(MulBits(x.mant, n), x.scale, TRUE)

RECURSIVE BitsToNat(_)
BitsToNat(bits) ==
    IF Len(bits) = 0 THEN 0 ELSE 2 * BitsToNat(SubSeq(bits, 1, Len(bits) - 1)) + bits[Len(bits)]

\* Math.round of a number between 0 and 2^MantBits: the integer nearest to
\* it, the larger one at a tie
MathRound(x) ==
    IF x.mant = <<>> THEN 0
    ELSE LET n == Len(x.mant) - x.scale
         IN  IF n < 0 THEN 0
             ELSE BitsToNat(SubSeq(x.mant, 1, n))
                    + (IF x.scale > 0 THEN x.mant[n + 1] ELSE 0)

\* calculateProgress: Math.round((completed / tasks.length) * 100)
calculateProgress(tasks) ==
    IF Len(tasks) = 0 THEN 0
    ELSE LET completed == Cardinality({i \in 1..Len(tasks) : tasks[i].completed})
         IN  MathRound(fmul(fdiv(completed, Len(tasks)), 100))

\* the longest task list calculateProgress is given
MaxTasks == 40

\* task lists of every length up to MaxTasks with every number of completed
\* tasks, the completed ones first or last
TaskLists ==
    UNION {{[i \in 1..total |-> [id |-> taskIdOf(i - 1), text |-> <<"a">>,
                                 completed |-> IF first THEN i <= done ELSE i > total - done]] :
               done \in 0..total, first \in BOOLEAN} : total \in 0..MaxTasks}

InitProgress ==
    /\ now \in NowDates
    /\ ptype = "weekly"
    /\ anchor = now
    /\ op = "init"
    /\ out \in TaskLists
    /\ paths = <<>>
    /\ store = <<>>
    /\ req = NoRequest

\* calculateProgress(goal.tasks)
CalculateProgress ==
    /\ op = "init"
    /\ op' = "calculateProgress"
    /\ out' = [tasks |-> out, progress |-> calculateProgress(out)]
    /\ UNCHANGED <<now, ptype, anchor, paths, store, req>>

NextProgress == CalculateProgress

SpecProgress == InitProgress /\ [][NextProgress]_vars

\* C13: calculateProgress returns 0 for an empty list and otherwise 100 *
\* completed / total rounded to the nearest integer (a half rounded up), a
\* whole number from 0 to 100.
C13_ProgressIsRounded ==
    op = "calculateProgress" =>
        LET total == Len(out.tasks)
            completed == Cardinality({i \in 1..total : out.tasks[i].completed})
        IN  /\ out.progress \in 0..100
            /\ out.progress = IF total = 0 THEN 0
                              ELSE (200 * completed + total) \div (2 * total)

\* ---------------------------------------------------------------------
\* Focus-area documents (vision, yearly, quarterly): parseStructuredContent
\* and the focus-area branch of buildMarkdownContent. Texts are sequences
\* of characters. The default emoji of the source, the pushpin U+1F4CC,
\* cannot be written here; the registered sign U+00AE, also an emoji
\* character, stands for it.
\* ---------------------------------------------------------------------

startsWith(str, prefix) ==
    Len(str) >= Len(prefix) /\ SubSeq(str, 1, Len(prefix)) = prefix

\* str.indexOf(part) + 1: the first position where part occurs, 0 when none
indexOf(str, part) ==
    LET at == {i \in 1..(Len(str) - Len(part) + 1) : SubSeq(str, i, i + Len(part) - 1) = part}
    IN  IF at = {} THEN 0 ELSE CHOOSE i \in at : \A j \in at : i <= j

includes(str, part) == indexOf(str, part) # 0

\* a trimStart that removes nothing
trimStart_Keep(str) == str

\* String.prototype.trimStart
RECURSIVE trimStart(_)
trimStart(str) ==
    IF Len(str) > 0 /\ IsSpace(str[1]) THEN trimStart(Tail(str)) ELSE str

\* str.replace(/part/g, '') for a literal part
RECURSIVE removeAll(_, _)
removeAll(str, part) ==
    LET i == indexOf(str, part)
    IN  IF i = 0 THEN str
        ELSE SubSeq(str, 1, i - 1) \o removeAll(SubSeq(str, i + Len(part), Len(str)), part)

\* str.replace(/part\s*/, ''): the first occurrence of part and the white
\* space after it removed
removeFirst(str, part) ==
    LET i == indexOf(str, part)
    IN  IF i = 0 THEN str
        ELSE SubSeq(str, 1, i - 1) \o trimStart(SubSeq(str, i + Len(part), Len(str)))

\* str.replace(/^part\s*/, '')
removePrefix(str, part) ==
    IF startsWith(str, part) THEN trimStart(SubSeq(str, Len(part) + 1, Len(str))) ELSE str

\* \p{Emoji} on the characters of the model: the copyright and registered signs and a digit
IsEmoji(c) == c \in {"®", "©", "2"}

\* \p{Emoji_Modifier} or U+FE0F; no character of the model is one
IsEmojiModifier(c) == c \in {}

\* the length of the match of
\* /^(\p{Emoji}(?:\p{Emoji_Modifier}|\uFE0F|\u200D\p{Emoji})*)/u that ends at i
RECURSIVE emojiEnd(_, _)
emojiEnd(text, i) ==
    IF i + 1 <= Len(text) /\ IsEmojiModifier(text[i + 1]) THEN emojiEnd(text, i + 1)
    ELSE IF i + 2 <= Len(text) /\ text[i + 1] = "\\u200D" /\ IsEmoji(text[i + 2])
    THEN emojiEnd(text, i + 2)
    ELSE i

DefaultEmoji == <<"®">>

extractEmoji(text) ==
    IF Len(text) > 0 /\ IsEmoji(text[1])
    THEN LET n == emojiEnd(text, 1)
         IN  [emoji |-> SubSeq(text, 1, n), rest |-> trim(SubSeq(text, n + 1, Len(text)))]
    ELSE [emoji |-> DefaultEmoji, rest |-> trim(text)]

\* trimmed.match(/^(#{2,3})\s+(.+)$/): the second group, <<>> when the line
\* is no header (a trimmed line ends in no white space, so the group is
\* never empty)
headerMatch(trimmed) ==
    LET n == IF startsWith(trimmed, <<"#", "#", "#">>) /\ Len(trimmed) > 3 /\ IsSpace(trimmed[4]) THEN 3
             ELSE IF startsWith(trimmed, <<"#", "#">>) /\ Len(trimmed) > 2 /\ IsSpace(trimmed[3]) THEN 2
             ELSE 0
        rest == trimStart(SubSeq(trimmed, n + 1, Len(trimmed)))
    IN  IF n # 0 /\ \A i \in 1..Len(rest) : IsDot(rest[i]) THEN rest ELSE <<>>

StorsteMaalsaetninger == <<"S", "t", "ø", "r", "s", "t", "e", " ", "m", "å", "l", "s", "æ", "t", "n", "i", "n", "g", "e", "r">>
StorsteForventninger == <<"S", "t", "ø", "r", "s", "t", "e", " ", "f", "o", "r", "v", "e", "n", "t", "n", "i", "n", "g", "e", "r">>
Maal == <<"M", "å", "l">>
Aarsag == <<"Å", "r", "s", "a", "g">>
Fokuspunkter == <<"F", "o", "k", "u", "s", "p", "u", "n", "k", "t", "e", "r">>

\* the goal of a vision area from its line
goalOf(trimmed) ==
    trim(removeFirst(removeAll(removePrefix(removePrefix(trimmed,
            <<"*", "*">> \o Maal \o <<":">>), <<"*", "*">> \o Maal), <<"*", "*">>),
         Maal \o <<":">>))

\* the reason of a vision area from its line
reasonOf(trimmed) ==
    trim(removeFirst(removeAll(removePrefix(trimmed, <<"*">> \o Aarsag \o <<":">>), <<"*">>),
         Aarsag \o <<":">>))

\* if (currentArea) focusAreas.push(currentArea)
pushArea(st) == IF st.currentArea = <<>> THEN st.focusAreas ELSE st.focusAreas \o st.currentArea

\* one turn of the loop of parseStructuredContent; currentArea is <<>> for
\* null or <<area>>, an undefined goal or reason is the empty text
parseLine(st, line, isVision) ==
    LET trimmed == trim(line)
        header == headerMatch(trimmed)
        headerContent == trim(removeAll(header, <<"*", "*">>))
        leadingSpaces == Len(line) - Len(trimStart(line))
        bulletText == trim(SubSeq(trimmed, 3, Len(trimmed)))
    IN  IF startsWith(trimmed, <<"-", "-", "-">>) THEN st
        ELSE IF header # <<>>
        THEN IF includes(headerContent, StorsteMaalsaetninger) \/ includes(headerContent, StorsteForventninger)
             THEN [st EXCEPT !.focusAreas = pushArea(st), !.currentArea = <<>>,
                             !.inExpectations = TRUE, !.inFocusPoints = FALSE]
             ELSE [st EXCEPT !.focusAreas = pushArea(st),
                             !.currentArea = <<[emoji |-> extractEmoji(headerContent).emoji,
                                                name |-> extractEmoji(headerContent).rest,
                                                goal |-> <<>>, reason |-> <<>>, points |-> <<>>]>>,
                             !.inExpectations = FALSE, !.inFocusPoints = TRUE]
        ELSE IF /\ isVision /\ st.currentArea # <<>>
                /\ \/ startsWith(trimmed, <<"*", "*">> \o Maal)
                   \/ includes(trimmed, Maal \o <<":">>)
        THEN [st EXCEPT !.currentArea[1].goal = goalOf(trimmed)]
        ELSE IF /\ isVision /\ st.currentArea # <<>>
                /\ \/ startsWith(trimmed, <<"*">> \o Aarsag \o <<":">>)
                   \/ includes(trimmed, Aarsag \o <<":">>)
        THEN [st EXCEPT !.currentArea[1].reason = reasonOf(trimmed)]
        ELSE IF trimmed = <<"-", " ">> \o Fokuspunkter \/ trimmed = Fokuspunkter
        THEN [st EXCEPT !.inFocusPoints = TRUE]
        ELSE IF ~startsWith(trimmed, <<"-", " ">>) THEN st
        ELSE IF bulletText = Fokuspunkter THEN [st EXCEPT !.inFocusPoints = TRUE]
        ELSE IF bulletText = <<>> THEN st
        ELSE IF st.inExpectations
        THEN [st EXCEPT !.expectations = Append(@, bulletText)]
        ELSE IF st.currentArea # <<>> /\ st.inFocusPoints
        THEN [st EXCEPT !.currentArea[1].points =
                            Append(@, IF leadingSpaces >= 4 THEN <<" ", " ">> \o bulletText
                                      ELSE bulletText)]
        ELSE st

RECURSIVE parseFrom(_, _, _, _)
parseFrom(st, lines, i, isVision) ==
    IF i > Len(lines) THEN st
    ELSE parseFrom(parseLine(st, lines[i], isVision), lines, i + 1, isVision)

parseStructuredContent(content, isVision) ==
    LET st == parseFrom([expectations |-> <<>>, focusAreas |-> <<>>, currentArea |-> <<>>,
                         inExpectations |-> FALSE, inFocusPoints |-> FALSE],
                        split(content), 1, isVision)
    IN  [expectations |-> st.expectations, focusAreas |-> pushArea(st)]

\* the decimal digits of a natural number
RECURSIVE digits(_)
digits(n) ==
    LET d == <<"0", "1", "2", "3", "4", "5", "6", "7", "8", "9">>[(n % 10) + 1]
    IN  IF n < 10 THEN <<d>> ELSE digits(n \div 10) \o <<d>>

\* concatenation of the texts of a sequence
RECURSIVE concat(_)
concat(texts) == IF Len(texts) = 0 THEN <<>> ELSE texts[1] \o concat(Tail(texts))

\* content += isSubPoint ? `    - ${text}\n` : `- ${text}\n`
pointLine(point) ==
    IF startsWith(point, <<" ", " ">>)
    THEN <<" ", " ", " ", " ", "-", " ">> \o trim(point) \o <<"\n">>
    ELSE <<"-", " ">> \o point \o <<"\n">>

\* the text of one focus area
areaText(area, period) ==
    <<"#", "#", " ">> \o area.emoji \o <<" ">> \o area.name \o <<"\n", "\n">>
      \o (IF period = "vision" /\ (area.goal # <<>> \/ area.reason # <<>>)
          THEN (IF area.goal # <<>>
                THEN <<"*", "*">> \o Maal \o <<":", "*", "*", " ">> \o area.goal \o <<"\n">>
                ELSE <<>>)
               \o (IF area.reason # <<>>
                   THEN <<"*">> \o Aarsag \o <<":", " ">> \o area.reason \o <<"*", "\n", "\n">>
                   ELSE <<>>)
          ELSE <<>>)
      \o concat([i \in 1..Len(area.points) |-> pointLine(area.points[i])])
      \o <<"\n">>

\* buildMarkdownContent for vision, yearly and quarterly goals
buildFocusContent(period, year, quarter, editExpectations, editFocusAreas) ==
    LET label == IF period = "vision" THEN StorsteMaalsaetninger
                 ELSE IF period = "yearly" THEN digits(year) \o <<" ">> \o StorsteForventninger
                 ELSE IF period = "quarterly" THEN <<"Q">> \o digits(quarter) \o <<" ">> \o StorsteForventninger
                 ELSE <<>>
        head == IF Len(editExpectations) > 0
                THEN <<"#", "#", " ">> \o label \o <<"\n", "\n">>
                       \o concat([i \in 1..Len(editExpectations) |->
                                     <<"-", " ">> \o editExpectations[i] \o <<"\n">>])
                       \o <<"\n">>
                ELSE <<>>
    IN  trim(head \o concat([i \in 1..Len(editFocusAreas) |-> areaText(editFocusAreas[i], period)]))

\* focus areas of the editor: with and without emoji, with sub-points, with
\* the goal and reason of a vision, the area the "add area" button makes
\* (default emoji, no name, one empty point), a goal that quotes its label
FocusAreaSet ==
    { [emoji |-> <<"©">>, name |-> <<"n">>, goal |-> <<>>, reason |-> <<>>,
       points |-> << <<"p">>, <<" ", " ", "s">> >>],
      [emoji |-> <<>>, name |-> <<"n">>, goal |-> <<>>, reason |-> <<>>,
       points |-> << <<"p">> >>],
      [emoji |-> <<"©">>, name |-> <<"m">>, goal |-> <<"g">>, reason |-> <<"r">>,
       points |-> << <<"p">> >>],
      [emoji |-> <<"©">>, name |-> <<"m">>, goal |-> <<"g">>, reason |-> <<>>,
       points |-> <<>>],
      [emoji |-> <<"©">>, name |-> <<"m">>, goal |-> <<>>, reason |-> <<"r">>,
       points |-> << <<"q">> >>],
      [emoji |-> DefaultEmoji, name |-> <<>>, goal |-> <<>>, reason |-> <<>>,
       points |-> << <<>> >>],
      [emoji |-> <<"©">>, name |-> <<"n">>, goal |-> <<"M", "å", "l", ":", " ", "M", "å", "l", ":", " ", "x">>, reason |-> <<>>,
       points |-> << <<"p">> >>] }

\* the largest number of focus areas of a document
MaxAreas == 2

RECURSIVE AreaSeqs(_)
AreaSeqs(n) ==
    IF n = 0 THEN {<<>>}
    ELSE LET shorter == AreaSeqs(n - 1)
         IN  shorter \cup {Append(as, a) : as \in {x \in shorter : Len(x) = n - 1}, a \in FocusAreaSet}

\* expectations of the editor: none, one, two, an empty one
ExpectationLists == { <<>>, << <<"e">> >>, << <<"e">>, <<"f">> >>, << <<>> >> }

\* the goal page with the editor open on a vision, yearly or quarterly goal
InitFocus ==
    /\ now \in NowDates
    /\ ptype \in {"vision", "yearly", "quarterly"}
    /\ anchor = now
    /\ op = "editing"
    /\ out \in [expectations : ExpectationLists, focusAreas : AreaSeqs(MaxAreas)]
    /\ paths = <<>>
    /\ store = <<>>
    /\ req = NoRequest

\* handleSave: the content built from the editor is written
SaveFocus ==
    /\ op \in {"editing", "parsed"}
    /\ op' = IF op = "editing" THEN "saved" ELSE "resaved"
    /\ store' = writeGoal("not-started",
                          buildFocusContent(ptype, thePeriod.year, thePeriod.quarter,
                                            out.expectations, out.focusAreas))
    /\ UNCHANGED <<now, ptype, anchor, out, paths, req>>

\* initializeEditingState: the editor filled from the stored content
LoadFocus ==
    /\ op = "saved"
    /\ op' = "parsed"
    /\ out' = parseStructuredContent(readGoal(store)[1].content, ptype = "vision")
    /\ UNCHANGED <<now, ptype, anchor, paths, store, req>>

NextFocus ==
    \/ SaveFocus
    \/ LoadFocus

SpecFocus == InitFocus /\ [][NextFocus]_vars

\* C14: what is parsed from the text the serializer builds of a parsed
\* document is that parsed document: the same expectations and the same
\* areas in the same order with the same emoji, name, goal, reason and points.
C14_ParseIsStable ==
    op = "resaved" =>
        parseStructuredContent(store[1].content, ptype = "vision") = out

\* C15: a text the serializer produced, parsed and serialized again for the
\* same period, is the same text character for character.
C15_SerializerOutputIsFixed ==
    op = "parsed" =>
        buildFocusContent(ptype, thePeriod.year, thePeriod.quarter,
                          out.expectations, out.focusAreas) = store[1].content

\* ---------------------------------------------------------------------
\* The goal tree: buildGoalTree over the files of the data directory. In
\* this part store is the set of files; a file is
\* [path, id, period, quarter, month, week, status, content], 0 for a
\* frontmatter field that is absent, id the path with / and . replaced by -.
\* ---------------------------------------------------------------------

\* content.match(/^#\s+(.+)$/m): the first group of the first match, <<>>
\* when there is none; a match starts with # at the start of a line, takes
\* white space (line breaks too) and then the rest of a line, which is not empty
extractTitleMatch(content) ==
    LET dotRun(p) == {n \in 0..(Len(content) - p + 1) : \A k \in p..(p + n - 1) : IsDot(content[k])}
        runLen(p) == CHOOSE n \in dotRun(p) : \A m \in dotRun(p) : m <= n
        spaces(i) == {k \in 1..(Len(content) - i) :
                         /\ \A j \in (i + 1)..(i + k) : IsSpace(content[j])
                         /\ runLen(i + k + 1) > 0}
        starts == {i \in 1..Len(content) :
                      /\ content[i] = "#"
                      /\ (i = 1 \/ content[i - 1] = "\n")
                      /\ spaces(i) # {}}
    IN  IF starts = {} THEN <<>>
        ELSE LET i == CHOOSE s \in starts : \A t \in starts : s <= t
                 k == CHOOSE s \in spaces(i) : \A t \in spaces(i) : t <= s
             IN  <<SubSeq(content, i + k + 1, i + k + runLen(i + k + 1))>>

Untitled == <<"U", "n", "t", "i", "t", "l", "e", "d">>

\* extractTitle
extractTitle(content) ==
    IF extractTitleMatch(content) = <<>> THEN Untitled ELSE trim(extractTitleMatch(content)[1])

\* readGoal on a file of the data directory: null is <<>>
readGoalFile(files, path) ==
    LET found == {f \in files : f.path = path}
    IN  IF found = {} THEN <<>>
        ELSE LET f == CHOOSE g \in found : TRUE
             IN  <<[id |-> f.id, path |-> f.path,
                    frontmatter |-> [period |-> f.period, quarter |-> f.quarter, month |-> f.month,
                                     week |-> f.week, status |-> f.status],
                    content |-> trim(f.content),
                    title |-> extractTitle(trim(f.content)),
                    tasks |-> parseTasks(trim(f.content))]>>

\* tasks.filter((t) => t.completed).length
completedCount(tasks) == Cardinality({i \in 1..Len(tasks) : tasks[i].completed})

\* a set of weekly goals as a sequence in the order of their weeks, the
\* order in which a month's directory lists week-NN.md
RECURSIVE inWeekOrder(_)
inWeekOrder(goals) ==
    IF goals = {} THEN <<>>
    ELSE LET g == CHOOSE x \in goals : \A y \in goals : x.frontmatter.week <= y.frontmatter.week
         IN  <<g>> \o inWeekOrder(goals \ {g})

\* getGoalsForYear: the goals of the files under goals/{year}
getGoalsForYear(files, year) ==
    {readGoalFile(files, f.path)[1] : f \in {g \in files : g.year = year /\ g.period # "vision"}}

\* the node of a goal
goalNode(id, title, period, goal) ==
    [id |-> id, title |-> title, period |-> period, status |-> goal.frontmatter.status,
     progress |-> calculateProgress(goal.tasks), path |-> goal.path, children |-> <<>>,
     tasksCompleted |-> completedCount(goal.tasks), tasksTotal |-> Len(goal.tasks)]

\* the node of one week
weekNode(weekGoal) ==
    goalNode(weekGoal.id, <<"W", "e", "e", "k", " ">> \o digits(weekGoal.frontmatter.week), "weekly", weekGoal)

\* the node of a month with its weeks
monthNode(allGoals, monthGoal, month, year) ==
    LET weeklyGoals == inWeekOrder({g \in allGoals :
                           g.frontmatter.period = "weekly" /\ g.frontmatter.month = month})
        node == goalNode("m" \o ToString(month) \o "-" \o ToString(year),
                         IF monthGoal.title # <<>> THEN monthGoal.title
                         ELSE <<"M", "o", "n", "t", "h", " ">> \o digits(month),
                         "monthly", monthGoal)
    IN  [node EXCEPT !.children = [i \in 1..Len(weeklyGoals) |-> weekNode(weeklyGoals[i])]]

\* the months of quarter q that have a monthly goal, in order
RECURSIVE monthNodes(_, _, _, _)
monthNodes(allGoals, q, k, year) ==
    IF k > 3 THEN <<>>
    ELSE LET month == (q - 1) * 3 + k
             found == {g \in allGoals : g.frontmatter.period = "monthly" /\ g.frontmatter.month = month}
         IN  (IF found = {} THEN <<>>
              ELSE <<monthNode(allGoals, CHOOSE g \in found : TRUE, month, year)>>)
             \o monthNodes(allGoals, q, k + 1, year)

\* allGoals.find(g => g.frontmatter.period === 'quarterly' && g.frontmatter.quarter === q)
quarterGoalOf(allGoals, q) ==
    LET found == {g \in allGoals : g.frontmatter.period = "quarterly" /\ g.frontmatter.quarter = q}
    IN  IF found = {} THEN <<>> ELSE <<CHOOSE g \in found : TRUE>>

\* the node of quarter q; status || 'not-started', progress and counts 0
\* without a quarterly goal
quarterNode(allGoals, q, year) ==
    LET quarterGoal == quarterGoalOf(allGoals, q)
    IN  [id |-> "q" \o ToString(q) \o "-" \o ToString(year),
         title |-> <<"Q">> \o digits(q),
         period |-> "quarterly",
         status |-> IF quarterGoal = <<>> THEN "not-started" ELSE quarterGoal[1].frontmatter.status,
         progress |-> IF quarterGoal = <<>> THEN 0 ELSE calculateProgress(quarterGoal[1].tasks),
         path |-> "goals/" \o ToString(year) \o "/q" \o ToString(q) \o "/quarterly.md",
         children |-> monthNodes(allGoals, q, 1, year),
         tasksCompleted |-> IF quarterGoal = <<>> THEN 0 ELSE completedCount(quarterGoal[1].tasks),
         tasksTotal |-> IF quarterGoal = <<>> THEN 0 ELSE Len(quarterGoal[1].tasks)]

\* variant: every quarter is attached
quarterAttached_Always(node, quarterGoal) == TRUE

\* if (quarterNode.children.length > 0 || quarterGoal)
quarterAttached(node, quarterGoal) == Len(node.children) > 0 \/ quarterGoal # <<>>

\* the quarters from q on that are attached to the root
RECURSIVE quarterNodes(_, _, _)
quarterNodes(allGoals, q, year) ==
    IF q > 4 THEN <<>>
    ELSE (IF quarterAttached(quarterNode(allGoals, q, year), quarterGoalOf(allGoals, q))
          THEN <<quarterNode(allGoals, q, year)>>
          ELSE <<>>)
         \o quarterNodes(allGoals, q + 1, year)

buildGoalTree(files, year) ==
    LET vision == readGoalFile(files, "vision/" \o ToString(year + 2) \o ".md")
        yearlyGoal == readGoalFile(files, "goals/" \o ToString(year) \o "/yearly.md")
        root == [id |-> "root", title |-> digits(year), period |-> "yearly",
                 status |-> IF yearlyGoal = <<>> THEN "not-started" ELSE yearlyGoal[1].frontmatter.status,
                 progress |-> IF yearlyGoal = <<>> THEN 0 ELSE calculateProgress(yearlyGoal[1].tasks),
                 path |-> "goals/" \o ToString(year) \o "/yearly.md",
                 children |-> <<>>,
                 tasksCompleted |-> IF yearlyGoal = <<>> THEN 0 ELSE completedCount(yearlyGoal[1].tasks),
                 tasksTotal |-> IF yearlyGoal = <<>> THEN 0 ELSE Len(yearlyGoal[1].tasks)]
    IN  IF vision # <<>>
        THEN [goalNode(vision[1].id, <<"V", "i", "s", "i", "o", "n", " ">> \o digits(year + 2), "vision", vision[1])
                 EXCEPT !.children = <<root>>]
        ELSE [root EXCEPT !.children = quarterNodes(getGoalsForYear(files, year), 1, year)]

\* the bodies of the files: a title and two tasks, one of them done; text
\* without tasks
TreeBodies == { <<"#", " ", "T", "\n", "-", " ", "[", "x", "]", " ", "a", "\n", "-", " ", "[", " ", "]", " ", "b">>, <<"t">> }

\* the year whose tree is built
TreeYear == getYear(CHOOSE d \in NowDates : TRUE)

goalFile(path, id, period, quarter, month, week, body) ==
    [path |-> path, id |-> id, period |-> period, year |-> TreeYear, quarter |-> quarter,
     month |-> month, week |-> week, status |-> "in-progress", content |-> body]

\* the files the data directory can hold: the vision of TreeYear + 2, the
\* yearly goal, the quarterly goal of Q1, the monthly goals of January and
\* April, a week of January and a week of February
TreeFiles ==
    LET y == ToString(TreeYear)
    IN  UNION {{ goalFile("vision/" \o ToString(TreeYear + 2) \o ".md",
                          "vision-" \o ToString(TreeYear + 2) \o "-md", "vision", 0, 0, 0, b),
                 goalFile("goals/" \o y \o "/yearly.md", "goals-" \o y \o "-yearly-md", "yearly", 0, 0, 0, b),
                 goalFile("goals/" \o y \o "/q1/quarterly.md", "goals-" \o y \o "-q1-quarterly-md",
                          "quarterly", 1, 0, 0, b),
                 goalFile("goals/" \o y \o "/q1/january/monthly.md", "goals-" \o y \o "-q1-january-monthly-md",
                          "monthly", 1, 1, 0, b),
                 goalFile("goals/" \o y \o "/q2/april/monthly.md", "goals-" \o y \o "-q2-april-monthly-md",
                          "monthly", 2, 4, 0, b),
                 goalFile("goals/" \o y \o "/q1/january/week-03.md", "goals-" \o y \o "-q1-january-week-03-md",
                          "weekly", 1, 1, 3, b),
                 goalFile("goals/" \o y \o "/q1/february/week-06.md", "goals-" \o y \o "-q1-february-week-06-md",
                          "weekly", 1, 2, 6, b) } : b \in TreeBodies}

InitTree ==
    /\ now \in NowDates
    /\ ptype = "yearly"
    /\ anchor = now
    /\ op = "init"
    /\ out = <<>>
    /\ paths = <<>>
    /\ store = {}
    /\ req = NoRequest

\* writeGoal: a file the data directory does not hold yet is written
WriteGoalFile(file) ==
    /\ op = "init"
    /\ \A f \in store : f.path # file.path
    /\ store' = store \cup {file}
    /\ UNCHANGED <<now, ptype, anchor, op, out, paths, req>>

\* GET /api/tree: buildGoalTree(year)
BuildGoalTree ==
    /\ op = "init"
    /\ op' = "buildGoalTree"
    /\ out' = buildGoalTree(store, TreeYear)
    /\ UNCHANGED <<now, ptype, anchor, paths, store, req>>

NextTree ==
    \/ \E file \in TreeFiles : WriteGoalFile(file)
    \/ BuildGoalTree

SpecTree == InitTree /\ [][NextTree]_vars

\* the files of the vision that buildGoalTree(TreeYear) looks for
VisionFiles == {f \in store : f.path = "vision/" \o ToString(TreeYear + 2) \o ".md"}

\* C16: with a vision document at vision/{year+2}.md the tree is the vision
\* node with one child, the yearly node, and under the yearly node stand the
\* quarter, month and week nodes that the tree of the same goal documents
\* without the vision has under its yearly root.
C16_VisionAboveFullYear ==
    (op = "buildGoalTree" /\ VisionFiles # {}) =>
        /\ out.period = "vision"
        /\ Len(out.children) = 1
        /\ out.children[1].period = "yearly"
        /\ out.children[1].children = buildGoalTree(store \ VisionFiles, TreeYear).children

\* the quarters that have a quarterly document or a monthly document of one
\* of their three months
QuartersWithDocuments ==
    {q \in 1..4 :
        \/ \E f \in store : f.year = TreeYear /\ f.period = "quarterly" /\ f.quarter = q
        \/ \E f \in store : /\ f.year = TreeYear /\ f.period = "monthly"
                            /\ f.month \in ((q - 1) * 3 + 1)..((q - 1) * 3 + 3)}

\* the k-th smallest element of a set of numbers
Ranked(S, k) == CHOOSE x \in S : Cardinality({y \in S : y < x}) = k - 1

\* C17: without a vision document the root is the node of the year, titled
\* with the year; its children are the nodes of the quarters that have a
\* quarterly document or a monthly document, in ascending order (none with
\* only a yearly document); without a yearly document its status is
\* not-started.
C17_RootAndQuarters ==
    (op = "buildGoalTree" /\ VisionFiles = {}) =>
        /\ out.period = "yearly"
        /\ out.title = digits(TreeYear)
        /\ Len(out.children) = Cardinality(QuartersWithDocuments)
        /\ \A k \in 1..Len(out.children) :
              /\ out.children[k].period = "quarterly"
              /\ out.children[k].title = <<"Q">> \o digits(Ranked(QuartersWithDocuments, k))
        /\ (\A f \in store : f.period # "yearly") => out.status = "not-started"

C17_Witness ==
    /\ op = "buildGoalTree"
    /\ VisionFiles = {}
    /\ \A f \in store : f.period \notin {"yearly", "quarterly"}
    /\ \E f \in store : f.period = "weekly" /\ f.month = 2
    /\ Len(out.children) = 2
    /\ out.status = "not-started"

\* the nodes of a tree
RECURSIVE nodesOf(_)
nodesOf(node) ==
    {node} \cup UNION {nodesOf(node.children[i]) : i \in 1..Len(node.children)}

\* C18: every vision, yearly and quarterly node of the tree has progress 0
\* and task counts 0 and 0, whatever the body of its document holds.
C18_FocusNodesCountNothing ==
    op = "buildGoalTree" =>
        \A node \in nodesOf(out) :
            node.period \in {"vision", "yearly", "quarterly"} =>
                node.progress = 0 /\ node.tasksCompleted = 0 /\ node.tasksTotal = 0

\* C19: a reflection on a period is stored at one path whichever producer
\* writes it: the path the new-reflection form builds is the path the
\* writeReflection tool gets from getReflectionPath for the same period.
C19_ReflectionProducersAgree ==
    op = "handleComplete" => paths[1] = writeReflectionToolPath(toolArgs)

\* ---------------------------------------------------------------------
\* Reflections: buildContentFromSections and parseReflectionSections. The
\* sections are a function from keys (texts) to answers (texts); a key
\* that is absent is a key outside the domain.
\* ---------------------------------------------------------------------

WEEKLY_MONTHLY_QUESTIONS ==
    << <<"H", "a", "r", " ", "j", "e", "g", " ", "n", "å", "e", "t", " ", "m", "i", "n", "e", " ", "m", "å", "l", "?">>,
       <<"H", "v", "a", "d", " ", "v", "i", "l", " ", "j", "e", "g", " ", "g", "ø", "r", "e", " ", "a", "n", "d", "e", "r", "l", "e", "d", "e", "s", " ", "n", "æ", "s", "t", "e", " ", "g", "a", "n", "g", "?">>,
       <<"H", "v", "a", "d", " ", "s", "k", "a", "l", " ", "j", "e", "g", " ", "f", "o", "r", "t", "s", "æ", "t", "t", "e", " ", "m", "e", "d", "?">>,
       <<"H", "v", "a", "d", " ", "h", "a", "r", " ", "j", "e", "g", " ", "l", "æ", "r", "t", "?">> >>

QUARTERLY_QUESTIONS ==
    << <<"H", "a", "r", " ", "j", "e", "g", " ", "n", "å", "e", "t", " ", "m", "i", "n", "e", " ", "k", "v", "a", "r", "t", "å", "r", "l", "i", "g", "e", " ", "m", "å", "l", "?">>,
       <<"3", " ", "y", "n", "d", "l", "i", "n", "g", "s", "d", "e", "l", "e", " ", "a", "f", " ", "d", "e", "t", "t", "e", " ", "k", "v", "a", "r", "t", "a", "l">>,
       <<"H", "v", "a", "d", " ", "e", "r", " ", "j", "e", "g", " ", "m", "e", "s", "t", " ", "s", "t", "o", "l", "t", " ", "a", "f", "?">>,
       <<"H", "v", "a", "d", " ", "u", "d", "f", "o", "r", "d", "r", "e", "d", "e", " ", "m", "i", "g", " ", "m", "e", "s", "t", "?">>,
       <<"H", "v", "o", "r", "n", "å", "r", " ", "f", "ø", "l", "t", "e", " ", "j", "e", "g", " ", "m", "i", "g", " ", "m", "e", "s", "t", " ", "s", "k", "r", "æ", "m", "t", "?">>,
       <<"H", "v", "a", "d", " ", "l", "æ", "r", "t", "e", " ", "j", "e", "g", " ", "o", "m", " ", "m", "i", "g", " ", "s", "e", "l", "v", "?">>,
       <<"B", "e", "s", "k", "r", "i", "v", " ", "d", "i", "t", " ", "y", "n", "d", "l", "i", "n", "g", "s", "ø", "j", "e", "b", "l", "i", "k">> >>

YEARLY_REFLECTION_QUESTIONS ==
    << <<"3", " ", "y", "n", "d", "l", "i", "n", "g", "s", "d", "e", "l", "e", " ", "a", "f", " ", "å", "r", "e", "t">>,
       <<"H", "v", "a", "d", " ", "e", "r", " ", "j", "e", "g", " ", "m", "e", "s", "t", " ", "s", "t", "o", "l", "t", " ", "a", "f", "?">>,
       <<"H", "v", "a", "d", " ", "u", "d", "f", "o", "r", "d", "r", "e", "d", "e", " ", "m", "i", "g", " ", "m", "e", "s", "t", "?">>,
       <<"H", "v", "o", "r", "n", "å", "r", " ", "f", "ø", "l", "t", "e", " ", "j", "e", "g", " ", "m", "i", "g", " ", "m", "e", "s", "t", " ", "s", "k", "r", "æ", "m", "t", "?">>,
       <<"H", "v", "a", "d", " ", "l", "æ", "r", "t", "e", " ", "j", "e", "g", " ", "o", "m", " ", "m", "i", "g", " ", "s", "e", "l", "v", "?">>,
       <<"B", "e", "s", "k", "r", "i", "v", " ", "d", "i", "t", " ", "y", "n", "d", "l", "i", "n", "g", "s", "ø", "j", "e", "b", "l", "i", "k">> >>

YEARLY_GROWTH_QUESTIONS ==
    << <<"H", "v", "o", "r", "d", "a", "n", " ", "v", "i", "l", " ", "d", "u", " ", "g", "e", "r", "n", "e", " ", "h", "a", "v", "e", " ", "d", "e", "t", " ", "i", " ", "d", "e", "t", "t", "e", " ", "å", "r", "?">>,
       <<"H", "v", "a", "d", " ", "b", "e", "t", "y", "d", "e", "r", " ", "d", "e", "t", "t", "e", " ", "å", "r", " ", "f", "o", "r", " ", "d", "i", "g", "?">>,
       <<"H", "v", "a", "d", " ", "s", "e", "r", " ", "d", "u", " ", "f", "r", "e", "m", " ", "t", "i", "l", "?">>,
       <<"H", "v", "a", "d", " ", "e", "r", " ", "d", "u", " ", "b", "e", "k", "y", "m", "r", "e", "t", " ", "f", "o", "r", "?">>,
       <<"H", "v", "a", "d", " ", "v", "i", "l", " ", "d", "u", " ", "g", "e", "r", "n", "e", " ", "l", "æ", "r", "e", " ", "m", "e", "r", "e", " ", "o", "m", " ", "e", "l", "l", "e", "r", " ", "u", "d", "v", "i", "k", "l", "e", "?">>,
       <<"H", "v", "a", "d", " ", "e", "r", " ", "d", "u", " ", "f", "o", "r", "p", "l", "i", "g", "t", "e", "t", " ", "t", "i", "l", " ", "i", " ", "å", "r", "?">>,
       <<"H", "v", "o", "r", "d", "a", "n", " ", "s", "e", "r", " ", "d", "e", "n", "n", "e", " ", "d", "a", "g", " ", "o", "m", " ", "p", "r", "æ", "c", "i", "s", " ", "e", "t", " ", "å", "r", " ", "u", "d", "?">> >>

YEARLY_AFFIRMATION_QUESTIONS ==
    << <<"D", "e", "t", "t", "e", " ", "å", "r", " ", "v", "i", "l", " ", "j", "e", "g", " ", "å", "b", "n", "e", " ", "m", "i", "g", " ", "o", "p", " ", "f", "o", "r">>,
       <<"J", "e", "g", " ", "v", "i", "l", " ", "l", "æ", "r", "e", " ", "m", "e", "r", "e", " ", "o", "m", "k", "r", "i", "n", "g">>,
       <<"J", "e", "g", " ", "v", "i", "l", " ", "s", "i", "g", "e", " ", "N", "E", "J", " ", "t", "i", "l">>,
       <<"J", "e", "g", " ", "v", "i", "l", " ", "s", "i", "g", "e", " ", "J", "A", " ", "t", "i", "l">> >>

\* the question texts of getReflectionQuestions
getReflectionQuestions(periodType) ==
    CASE periodType = "quarterly" -> QUARTERLY_QUESTIONS
      [] periodType = "yearly" ->
           YEARLY_REFLECTION_QUESTIONS \o YEARLY_GROWTH_QUESTIONS \o YEARLY_AFFIRMATION_QUESTIONS
      [] OTHER -> WEEKLY_MONTHLY_QUESTIONS

\* sections[key], the empty text when undefined
sectionAt(sections, key) == IF key \in DOMAIN sections THEN sections[key] ELSE <<>>

\* a || b on texts
orElse(a, b) == IF a # <<>> THEN a ELSE b

\* const get = (key) => sections[key] || sections[key + '?'] || ''
get(sections, key) == orElse(sectionAt(sections, key), sectionAt(sections, Append(key, "?")))

buildWeeklyMonthlyContent(sections) ==
    concat(<< <<"#", "#", " ", "H", "a", "r", " ", "j", "e", "g", " ", "n", "å", "e", "t", " ", "m", "i", "n", "e", " ", "m", "å", "l", "?", "\n", "\n">>,
              get(sections, <<"H", "a", "r", " ", "j", "e", "g", " ", "n", "å", "e", "t", " ", "m", "i", "n", "e", " ", "m", "å", "l">>),
              <<"\n", "\n", "#", "#", " ", "H", "v", "a", "d", " ", "v", "i", "l", " ", "j", "e", "g", " ", "g", "ø", "r", "e", " ", "a", "n", "d", "e", "r", "l", "e", "d", "e", "s", " ", "n", "æ", "s", "t", "e", " ", "g", "a", "n", "g", "?", "\n", "\n">>,
              get(sections, <<"H", "v", "a", "d", " ", "v", "i", "l", " ", "j", "e", "g", " ", "g", "ø", "r", "e", " ", "a", "n", "d", "e", "r", "l", "e", "d", "e", "s", " ", "n", "æ", "s", "t", "e", " ", "g", "a", "n", "g">>),
              <<"\n", "\n", "#", "#", " ", "H", "v", "a", "d", " ", "s", "k", "a", "l", " ", "j", "e", "g", " ", "f", "o", "r", "t", "s", "æ", "t", "t", "e", " ", "m", "e", "d", "?", "\n", "\n">>,
              get(sections, <<"H", "v", "a", "d", " ", "s", "k", "a", "l", " ", "j", "e", "g", " ", "f", "o", "r", "t", "s", "æ", "t", "t", "e", " ", "m", "e", "d">>),
              <<"\n", "\n", "#", "#", " ", "H", "v", "a", "d", " ", "h", "a", "r", " ", "j", "e", "g", " ", "l", "æ", "r", "t", "?", "\n", "\n">>,
              get(sections, <<"H", "v", "a", "d", " ", "h", "a", "r", " ", "j", "e", "g", " ", "l", "æ", "r", "t">>),
              <<"\n">> >>)

buildQuarterlyContent(sections, quarter) ==
    concat(<< <<"#", "#", " ", "H", "a", "r", " ", "j", "e", "g", " ", "n", "å", "e", "t", " ", "m", "i", "n", "e", " ", "k", "v", "a", "r", "t", "å", "r", "l", "i", "g", "e", " ", "m", "å", "l", "?", "\n", "\n">>,
              get(sections, <<"H", "a", "r", " ", "j", "e", "g", " ", "n", "å", "e", "t", " ", "m", "i", "n", "e", " ", "k", "v", "a", "r", "t", "å", "r", "l", "i", "g", "e", " ", "m", "å", "l">>),
              <<"\n", "\n", "#", "#", " ", "3", " ", "y", "n", "d", "l", "i", "n", "g", "s", "d", "e", "l", "e", " ", "a", "f", " ", "Q">> \o digits(quarter) \o <<"\n", "\n">>,
              orElse(get(sections, <<"3", " ", "y", "n", "d", "l", "i", "n", "g", "s", "d", "e", "l", "e", " ", "a", "f", " ", "Q">> \o digits(quarter)),
                     get(sections, <<"3", " ", "y", "n", "d", "l", "i", "n", "g", "s", "d", "e", "l", "e", " ", "a", "f", " ", "d", "e", "t", "t", "e", " ", "k", "v", "a", "r", "t", "a", "l">>)),
              <<"\n", "\n", "#", "#", " ", "H", "v", "a", "d", " ", "e", "r", " ", "j", "e", "g", " ", "m", "e", "s", "t", " ", "s", "t", "o", "l", "t", " ", "a", "f", "?", "\n", "\n">>,
              get(sections, <<"H", "v", "a", "d", " ", "e", "r", " ", "j", "e", "g", " ", "m", "e", "s", "t", " ", "s", "t", "o", "l", "t", " ", "a", "f">>),
              <<"\n", "\n", "#", "#", " ", "H", "v", "a", "d", " ", "u", "d", "f", "o", "r", "d", "r", "e", "d", "e", " ", "m", "i", "g", " ", "m", "e", "s", "t", "?", "\n", "\n">>,
              get(sections, <<"H", "v", "a", "d", " ", "u", "d", "f", "o", "r", "d", "r", "e", "d", "e", " ", "m", "i", "g", " ", "m", "e", "s", "t">>),
              <<"\n", "\n", "#", "#", " ", "H", "v", "o", "r", "n", "å", "r", " ", "f", "ø", "l", "t", "e", " ", "j", "e", "g", " ", "m", "i", "g", " ", "m", "e", "s", "t", " ", "s", "k", "r", "æ", "m", "t", "?", "\n", "\n">>,
              get(sections, <<"H", "v", "o", "r", "n", "å", "r", " ", "f", "ø", "l", "t", "e", " ", "j", "e", "g", " ", "m", "i", "g", " ", "m", "e", "s", "t", " ", "s", "k", "r", "æ", "m", "t">>),
              <<"\n", "\n", "#", "#", " ", "H", "v", "a", "d", " ", "l", "æ", "r", "t", "e", " ", "j", "e", "g", " ", "o", "m", " ", "m", "i", "g", " ", "s", "e", "l", "v", " ", "i", " ", "Q">> \o digits(quarter) \o <<"?", "\n", "\n">>,
              orElse(get(sections, <<"H", "v", "a", "d", " ", "l", "æ", "r", "t", "e", " ", "j", "e", "g", " ", "o", "m", " ", "m", "i", "g", " ", "s", "e", "l", "v", " ", "i", " ", "Q">> \o digits(quarter)),
                     get(sections, <<"H", "v", "a", "d", " ", "l", "æ", "r", "t", "e", " ", "j", "e", "g", " ", "o", "m", " ", "m", "i", "g", " ", "s", "e", "l", "v">>)),
              <<"\n", "\n", "#", "#", " ", "B", "e", "s", "k", "r", "i", "v", " ", "d", "i", "t", " ", "y", "n", "d", "l", "i", "n", "g", "s", "ø", "j", "e", "b", "l", "i", "k", "\n", "\n">>,
              get(sections, <<"B", "e", "s", "k", "r", "i", "v", " ", "d", "i", "t", " ", "y", "n", "d", "l", "i", "n", "g", "s", "ø", "j", "e", "b", "l", "i", "k">>),
              <<"\n">> >>)

buildYearlyContent(sections, year) ==
    LET prevYear == year - 1 IN
    concat(<< <<"#", " ">> \o digits(prevYear) \o <<" ", "R", "e", "f", "l", "e", "k", "s", "i", "o", "n", "e", "r", "\n", "\n", "#", "#", " ", "3", " ", "y", "n", "d", "l", "i", "n", "g", "s", "d", "e", "l", "e", " ", "a", "f", " ">> \o digits(prevYear) \o <<"\n", "\n">>,
              orElse(get(sections, <<"3", " ", "y", "n", "d", "l", "i", "n", "g", "s", "d", "e", "l", "e", " ", "a", "f", " ">> \o digits(prevYear)),
                     get(sections, <<"3", " ", "y", "n", "d", "l", "i", "n", "g", "s", "d", "e", "l", "e", " ", "a", "f", " ", "å", "r", "e", "t">>)),
              <<"\n", "\n", "#", "#", " ", "H", "v", "a", "d", " ", "e", "r", " ", "j", "e", "g", " ", "m", "e", "s", "t", " ", "s", "t", "o", "l", "t", " ", "a", "f", "?", "\n", "\n">>,
              get(sections, <<"H", "v", "a", "d", " ", "e", "r", " ", "j", "e", "g", " ", "m", "e", "s", "t", " ", "s", "t", "o", "l", "t", " ", "a", "f">>),
              <<"\n", "\n", "#", "#", " ", "H", "v", "a", "d", " ", "u", "d", "f", "o", "r", "d", "r", "e", "d", "e", " ", "m", "i", "g", " ", "m", "e", "s", "t", "?", "\n", "\n">>,
              get(sections, <<"H", "v", "a", "d", " ", "u", "d", "f", "o", "r", "d", "r", "e", "d", "e", " ", "m", "i", "g", " ", "m", "e", "s", "t">>),
              <<"\n", "\n", "#", "#", " ", "H", "v", "o", "r", "n", "å", "r", " ", "f", "ø", "l", "t", "e", " ", "j", "e", "g", " ", "m", "i", "g", " ", "m", "e", "s", "t", " ", "s", "k", "r", "æ", "m", "t", "?", "\n", "\n">>,
              get(sections, <<"H", "v", "o", "r", "n", "å", "r", " ", "f", "ø", "l", "t", "e", " ", "j", "e", "g", " ", "m", "i", "g", " ", "m", "e", "s", "t", " ", "s", "k", "r", "æ", "m", "t">>),
              <<"\n", "\n", "#", "#", " ", "H", "v", "a", "d", " ", "l", "æ", "r", "t", "e", " ", "j", "e", "g", " ", "o", "m", " ", "m", "i", "g", " ", "s", "e", "l", "v", " ", "i", " ">> \o digits(prevYear) \o <<"?", "\n", "\n">>,
              orElse(get(sections, <<"H", "v", "a", "d", " ", "l", "æ", "r", "t", "e", " ", "j", "e", "g", " ", "o", "m", " ", "m", "i", "g", " ", "s", "e", "l", "v", " ", "i", " ">> \o digits(prevYear)),
                     get(sections, <<"H", "v", "a", "d", " ", "l", "æ", "r", "t", "e", " ", "j", "e", "g", " ", "o", "m", " ", "m", "i", "g", " ", "s", "e", "l", "v">>)),
              <<"\n", "\n", "#", "#", " ", "B", "e", "s", "k", "r", "i", "v", " ", "d", "i", "t", " ", "y", "n", "d", "l", "i", "n", "g", "s", "ø", "j", "e", "b", "l", "i", "k", "\n", "\n">>,
              get(sections, <<"B", "e", "s", "k", "r", "i", "v", " ", "d", "i", "t", " ", "y", "n", "d", "l", "i", "n", "g", "s", "ø", "j", "e", "b", "l", "i", "k">>),
              <<"\n", "\n", "-", "-", "-", "\n", "\n", "#", " ">> \o digits(year) \o <<" ", "V", "æ", "k", "s", "t", "\n", "\n", "#", "#", " ", "H", "v", "o", "r", "d", "a", "n", " ", "v", "i", "l", " ", "d", "u", " ", "g", "e", "r", "n", "e", " ", "h", "a", "v", "e", " ", "d", "e", "t", " ", "i", " ">> \o digits(year) \o <<"?", "\n", "\n">>,
              orElse(get(sections, <<"H", "v", "o", "r", "d", "a", "n", " ", "v", "i", "l", " ", "d", "u", " ", "g", "e", "r", "n", "e", " ", "h", "a", "v", "e", " ", "d", "e", "t", " ", "i", " ">> \o digits(year)),
                     get(sections, <<"H", "v", "o", "r", "d", "a", "n", " ", "v", "i", "l", " ", "d", "u", " ", "g", "e", "r", "n", "e", " ", "h", "a", "v", "e", " ", "d", "e", "t", " ", "i", " ", "d", "e", "t", "t", "e", " ", "å", "r">>)),
              <<"\n", "\n", "#", "#", " ", "H", "v", "a", "d", " ", "b", "e", "t", "y", "d", "e", "r", " ", "d", "e", "t", "t", "e", " ", "å", "r", " ", "f", "o", "r", " ", "d", "i", "g", "?", "\n", "\n">>,
              get(sections, <<"H", "v", "a", "d", " ", "b", "e", "t", "y", "d", "e", "r", " ", "d", "e", "t", "t", "e", " ", "å", "r", " ", "f", "o", "r", " ", "d", "i", "g">>),
              <<"\n", "\n", "#", "#", " ", "H", "v", "a", "d", " ", "s", "e", "r", " ", "d", "u", " ", "f", "r", "e", "m", " ", "t", "i", "l", "?", "\n", "\n">>,
              get(sections, <<"H", "v", "a", "d", " ", "s", "e", "r", " ", "d", "u", " ", "f", "r", "e", "m", " ", "t", "i", "l">>),
              <<"\n", "\n", "#", "#", " ", "H", "v", "a", "d", " ", "e", "r", " ", "d", "u", " ", "b", "e", "k", "y", "m", "r", "e", "t", " ", "f", "o", "r", "?", "\n", "\n">>,
              get(sections, <<"H", "v", "a", "d", " ", "e", "r", " ", "d", "u", " ", "b", "e", "k", "y", "m", "r", "e", "t", " ", "f", "o", "r">>),
              <<"\n", "\n", "#", "#", " ", "H", "v", "a", "d", " ", "v", "i", "l", " ", "d", "u", " ", "g", "e", "r", "n", "e", " ", "l", "æ", "r", "e", " ", "m", "e", "r", "e", " ", "o", "m", " ", "e", "l", "l", "e", "r", " ", "u", "d", "v", "i", "k", "l", "e", "?", "\n", "\n">>,
              get(sections, <<"H", "v", "a", "d", " ", "v", "i", "l", " ", "d", "u", " ", "g", "e", "r", "n", "e", " ", "l", "æ", "r", "e", " ", "m", "e", "r", "e", " ", "o", "m", " ", "e", "l", "l", "e", "r", " ", "u", "d", "v", "i", "k", "l", "e">>),
              <<"\n", "\n", "#", "#", " ", "H", "v", "a", "d", " ", "e", "r", " ", "d", "u", " ", "f", "o", "r", "p", "l", "i", "g", "t", "e", "t", " ", "t", "i", "l", " ", "i", " ">> \o digits(year) \o <<"?", "\n", "\n">>,
              orElse(get(sections, <<"H", "v", "a", "d", " ", "e", "r", " ", "d", "u", " ", "f", "o", "r", "p", "l", "i", "g", "t", "e", "t", " ", "t", "i", "l", " ", "i", " ">> \o digits(year)),
                     get(sections, <<"H", "v", "a", "d", " ", "e", "r", " ", "d", "u", " ", "f", "o", "r", "p", "l", "i", "g", "t", "e", "t", " ", "t", "i", "l", " ", "i", " ", "å", "r">>)),
              <<"\n", "\n", "#", "#", " ", "H", "v", "o", "r", "d", "a", "n", " ", "s", "e", "r", " ", "d", "e", "n", "n", "e", " ", "d", "a", "g", " ", "o", "m", " ", "p", "r", "æ", "c", "i", "s", " ", "e", "t", " ", "å", "r", " ", "u", "d", "?", "\n", "\n">>,
              get(sections, <<"H", "v", "o", "r", "d", "a", "n", " ", "s", "e", "r", " ", "d", "e", "n", "n", "e", " ", "d", "a", "g", " ", "o", "m", " ", "p", "r", "æ", "c", "i", "s", " ", "e", "t", " ", "å", "r", " ", "u", "d">>),
              <<"\n", "\n", "-", "-", "-", "\n", "\n", "#", " ", "A", "f", "f", "i", "r", "m", "a", "t", "i", "o", "n", "e", "r", "\n", "\n", "#", "#", " ", "D", "e", "t", "t", "e", " ", "å", "r", " ", "v", "i", "l", " ", "j", "e", "g", " ", "å", "b", "n", "e", " ", "m", "i", "g", " ", "o", "p", " ", "f", "o", "r", "\n", "\n">>,
              get(sections, <<"D", "e", "t", "t", "e", " ", "å", "r", " ", "v", "i", "l", " ", "j", "e", "g", " ", "å", "b", "n", "e", " ", "m", "i", "g", " ", "o", "p", " ", "f", "o", "r">>),
              <<"\n", "\n", "#", "#", " ", "J", "e", "g", " ", "v", "i", "l", " ", "l", "æ", "r", "e", " ", "m", "e", "r", "e", " ", "o", "m", "k", "r", "i", "n", "g", "\n", "\n">>,
              get(sections, <<"J", "e", "g", " ", "v", "i", "l", " ", "l", "æ", "r", "e", " ", "m", "e", "r", "e", " ", "o", "m", "k", "r", "i", "n", "g">>),
              <<"\n", "\n", "#", "#", " ", "J", "e", "g", " ", "v", "i", "l", " ", "s", "i", "g", "e", " ", "N", "E", "J", " ", "t", "i", "l", "\n", "\n">>,
              get(sections, <<"J", "e", "g", " ", "v", "i", "l", " ", "s", "i", "g", "e", " ", "N", "E", "J", " ", "t", "i", "l">>),
              <<"\n", "\n", "#", "#", " ", "J", "e", "g", " ", "v", "i", "l", " ", "s", "i", "g", "e", " ", "J", "A", " ", "t", "i", "l", "\n", "\n">>,
              get(sections, <<"J", "e", "g", " ", "v", "i", "l", " ", "s", "i", "g", "e", " ", "J", "A", " ", "t", "i", "l">>),
              <<"\n">> >>)

\* buildContentFromSections; year and quarter 0 when not given
buildContentFromSections(periodType, sections, year, quarter, currentYear) ==
    CASE periodType = "quarterly" -> buildQuarterlyContent(sections, IF quarter # 0 THEN quarter ELSE 1)
      [] periodType = "yearly" -> buildYearlyContent(sections, IF year # 0 THEN year ELSE currentYear)
      [] OTHER -> buildWeeklyMonthlyContent(sections)

\* sections.push({question: currentQuestion, answer: currentAnswer.join('\n').trim()})
\* when a question is open
pushSection(st) ==
    IF st.currentQuestion # <<>>
    THEN Append(st.sections, [question |-> st.currentQuestion, answer |-> trim(join(st.currentAnswer))])
    ELSE st.sections

\* one turn of the loop of parseReflectionSections
parseReflectionLine(st, line) ==
    IF startsWith(line, <<"#", "#", " ">>)
    THEN [sections |-> pushSection(st),
          currentQuestion |-> trim(SubSeq(line, 4, Len(line))),
          currentAnswer |-> <<>>]
    ELSE IF startsWith(line, <<"#", " ">>) \/ startsWith(line, <<"-", "-", "-">>)
    THEN IF st.currentQuestion # <<>>
         THEN [sections |-> pushSection(st), currentQuestion |-> <<>>, currentAnswer |-> <<>>]
         ELSE st
    ELSE IF st.currentQuestion # <<>>
    THEN [st EXCEPT !.currentAnswer = Append(@, line)]
    ELSE st

\* the loop of parseReflectionSections over the lines run.lo..run.hi from
\* the state run.st: the first half of the lines, then the second
RECURSIVE parseReflectionLines(_, _)
parseReflectionLines(run, lines) ==
    IF run.lo > run.hi THEN run.st
    ELSE IF run.lo = run.hi THEN parseReflectionLine(run.st, lines[run.lo])
    ELSE LET mid == (run.lo + run.hi) \div 2
         IN  parseReflectionLines(
                 [st |-> parseReflectionLines([run EXCEPT !.hi = mid], lines),
                  lo |-> mid + 1, hi |-> run.hi], lines)

parseReflectionSections(content) ==
    LET lines == split(content)
    IN  pushSection(parseReflectionLines(
            [st |-> [sections |-> <<>>, currentQuestion |-> <<>>, currentAnswer |-> <<>>],
             lo |-> 1, hi |-> Len(lines)], lines))

\* q.question.replace(/\?$/, '')
withoutMark(question) ==
    IF Len(question) > 0 /\ question[Len(question)] = "?"
    THEN SubSeq(question, 1, Len(question) - 1)
    ELSE question

\* the answers of a reflection: a word, a padded word, two lines, two
\* paragraphs with a rule between them, and a text with a heading of its own
ReflectionAnswers ==
    { <<"a">>,
      <<" ", "a", "\n">>,
      <<"a", "\n", "b">>,
      <<"a", "\n", "-", "-", "-", "\n", "b">>,
      <<"a", "\n", "#", "#", " ", "b">> }

\* at most this many questions are answered, unless all of them are
MaxAnswered == 2

\* the key of a question in the sections: its text, with the question mark
\* or without it
sectionKey(question, marked) == IF marked THEN question ELSE withoutMark(question)

\* the sections of a reflection of one type: some questions answered from
\* ReflectionAnswers, or every question answered with its number
ReflectionSections(periodType) ==
    LET questions == getReflectionQuestions(periodType)
        Indexes   == DOMAIN questions
    IN  UNION { UNION { { [k \in {sectionKey(questions[i], marked) : i \in answered} |->
                             answers[CHOOSE i \in answered : sectionKey(questions[i], marked) = k]]
                          : answers \in [answered -> ReflectionAnswers] }
                        : answered \in {a \in SUBSET Indexes : Cardinality(a) <= MaxAnswered} }
                : marked \in BOOLEAN }
        \cup { [k \in {sectionKey(questions[i], marked) : i \in Indexes} |->
                   digits(CHOOSE i \in Indexes : sectionKey(questions[i], marked) = k)]
               : marked \in BOOLEAN }

InitReflection ==
    /\ now \in NowDates
    /\ ptype \in {"weekly", "monthly", "quarterly", "yearly"}
    /\ anchor = now
    /\ op = "init"
    /\ out \in ReflectionSections(ptype)
    /\ paths = <<>>
    /\ store = <<>>
    /\ req = NoRequest

\* buildContentFromSections(selectedType, sections, year, quarter): the
\* content of the reflection document
BuildContentFromSections ==
    /\ op = "init"
    /\ op' = "buildContentFromSections"
    /\ store' = buildContentFromSections(ptype, out, formYear,
                    IF ptype = "quarterly" THEN formQuarter ELSE 0, getYear(now))
    /\ UNCHANGED <<now, ptype, anchor, out, paths, req>>

\* readReflection: the sections of the document
ParseReflectionSections ==
    /\ op = "buildContentFromSections"
    /\ op' = "parseReflectionSections"
    /\ paths' = parseReflectionSections(store)
    /\ UNCHANGED <<now, ptype, anchor, out, store, req>>

NextReflection ==
    \/ BuildContentFromSections
    \/ ParseReflectionSections

SpecReflection == InitReflection /\ [][NextReflection]_vars

\* the answer the sections hold for a question, under either key
answerOf(sections, question) ==
    orElse(sectionAt(sections, question), sectionAt(sections, withoutMark(question)))

\* C20: the sections read from a document built from a reflection's
\* sections are one per question of the catalog of its type, in the order
\* of the catalog, each with the trimmed answer the sections hold for its
\* question (the empty text when they hold none).
C20_BuildParseSymmetric ==
    op = "parseReflectionSections" =>
        LET questions == getReflectionQuestions(ptype)
        IN  /\ Len(paths) = Len(questions)
            /\ \A i \in DOMAIN questions : paths[i].answer = trim(answerOf(out, questions[i]))

\* C21: isCurrent is derived from the current time: every period returned
\* by getCurrentPeriod, getParentPeriod, getChildPeriods or
\* getPeriodsForYear has isCurrent true exactly when now lies in its
\* [start, end].
C21_IsCurrentDerived ==
    op \in {"getCurrentPeriod", "getParentPeriod", "getChildPeriods", "getPeriodsForYear"} =>
        \A i \in 1..Len(out) :
            out[i].isCurrent <=> isWithinInterval(now, out[i].start, out[i].end)

\* ---------------------------------------------------------------------
\* Goal documents read by the goal page: parseStructuredContent on the
\* lines of a document as it is stored.
\* ---------------------------------------------------------------------

\* the headers of a focus area: with an emoji, and without one
DocHeaders ==
    { <<"#", "#", " ", "©", " ", "F", "o", "c", "u", "s">>,
      <<"#", "#", "#", " ", "P", "l", "a", "i", "n">> }

\* the lines under it: a blank line, bullets at three depths, the label of
\* the points, the header of the expectations, the goal and the reason of
\* a vision area, and a bullet that quotes the goal's label
DocLineSet ==
    DocHeaders \cup
    { <<>>,
      <<"-", " ", "P", "o", "i", "n", "t", " ", "A">>,
      <<" ", " ", " ", " ", "-", " ", "S", "u", "b", " ", "B">>,
      <<" ", " ", "-", " ", "c">>,
      <<"-", " ", "F", "o", "k", "u", "s", "p", "u", "n", "k", "t", "e", "r">>,
      <<"#", "#", " ", "S", "t", "ø", "r", "s", "t", "e", " ", "f", "o", "r", "v", "e", "n", "t", "n", "i", "n", "g", "e", "r">>,
      <<"*", "*", "M", "å", "l", ":", "*", "*", " ", "g">>,
      <<"*", "Å", "r", "s", "a", "g", ":", "*", " ", "r">>,
      <<"-", " ", "M", "å", "l", ":", " ", "m">> }

\* lines of a document after its first header
MaxDocLines == 3

DocTails(n) == UNION {[1..k -> DocLineSet] : k \in 0..n}

DocContents == {join(<<h>> \o tail) : h \in DocHeaders, tail \in DocTails(MaxDocLines)}

\* the goal page holding a vision or a yearly goal document
InitDocument ==
    /\ now \in NowDates
    /\ ptype \in {"vision", "yearly"}
    /\ anchor = now
    /\ op = "init"
    /\ out = <<>>
    /\ paths = <<>>
    /\ store \in DocContents
    /\ req = NoRequest

\* parseStructuredContent(goal.content, goal.frontmatter.period === 'vision')
ParseStructuredContent ==
    /\ op = "init"
    /\ op' = "parseStructuredContent"
    /\ out' = parseStructuredContent(store, ptype = "vision")
    /\ UNCHANGED <<now, ptype, anchor, paths, store, req>>

NextDocument == ParseStructuredContent

SpecDocument == InitDocument /\ [][NextDocument]_vars

\* the lines of the document
docLines == split(store)

\* the text of a bullet line, <<>> when the line is no bullet
bulletOf(line) ==
    IF startsWith(trim(line), <<"-", " ">>) THEN trim(SubSeq(trim(line), 3, Len(trim(line)))) ELSE <<>>

\* a header line, and a header of the expectations
IsHeader(line) == headerMatch(trim(line)) # <<>>

IsExpectationsHeader(line) ==
    IsHeader(line) /\ (includes(line, StorsteMaalsaetninger) \/ includes(line, StorsteForventninger))

\* the header lines of the focus areas, and the k-th of them
AreaHeaders == {i \in DOMAIN docLines : IsHeader(docLines[i]) /\ ~IsExpectationsHeader(docLines[i])}

\* the members of a set of line numbers in increasing order
InOrder(S) == [k \in 1..Cardinality(S) |-> CHOOSE i \in S : Cardinality({j \in S : j < i}) = k - 1]

\* the lines under the header at line h: up to the next header
Under(h) == {i \in DOMAIN docLines : i > h /\ \A j \in (h + 1)..i : ~IsHeader(docLines[j])}

\* the number of spaces a line starts with
LeadingSpaces(line) == Cardinality({i \in DOMAIN line : \A j \in 1..i : line[j] = " "})

\* a line that names the goal or the reason of a vision area
NamesGoalOrReason(line) ==
    includes(line, Maal \o <<":">>) \/ includes(line, Aarsag \o <<":">>)

\* the bullets under the header at line h
BulletsUnder(h) ==
    {i \in Under(h) : /\ bulletOf(docLines[i]) # <<>>
                       /\ bulletOf(docLines[i]) # Fokuspunkter
                       /\ ~(ptype = "vision" /\ NamesGoalOrReason(docLines[i]))}

\* the document of the example: a header, a blank line, a point and a sub-point
ExampleDocument ==
    join(<< <<"#", "#", " ", "©", " ", "F", "o", "c", "u", "s">>,
           <<>>,
           <<"-", " ", "P", "o", "i", "n", "t", " ", "A">>,
           <<" ", " ", " ", " ", "-", " ", "S", "u", "b", " ", "B">> >>)

MarkedUnder(h, marker) == \E i \in Under(h) : startsWith(trim(docLines[i]), marker)

\* C23: in a vision document only a line that starts with the bold goal
\* marker sets an area's goal and only a line that starts with the italic
\* reason marker sets its reason; every bullet under the area's header
\* other than the label of the points is one of the area's points.
C23_OnlyMarkersSetGoalAndReason ==
    (op = "parseStructuredContent" /\ ptype = "vision") =>
        /\ Len(out.focusAreas) = Cardinality(AreaHeaders)
        /\ \A k \in 1..Cardinality(AreaHeaders) :
               LET h == InOrder(AreaHeaders)[k]
                   area == out.focusAreas[k]
               IN  /\ area.goal # <<>> => MarkedUnder(h, <<"*", "*">> \o Maal)
                   /\ area.reason # <<>> => MarkedUnder(h, <<"*">> \o Aarsag)
                   /\ Len(area.points) =
                         Cardinality({i \in Under(h) : /\ bulletOf(docLines[i]) # <<>>
                                                       /\ bulletOf(docLines[i]) # Fokuspunkter})

\* ---------------------------------------------------------------------
\* ensureDataDir under concurrent callers. store is the set of directories
\* that exist, out the flag _dataBootstrapped, req the position of each
\* caller of listMarkdownFiles and paths what its readdir found.
\* ---------------------------------------------------------------------

NumCallers == 3

Callers == 1..NumCallers

\* DATA_DIR and the directories ensureDataDir makes in it, in its order
DataDirs == <<"data", "goals", "reflections", "vision">>

AllDataDirs == {DataDirs[i] : i \in DOMAIN DataDirs}

\* a first use on a fresh checkout, or a data directory that is set up
InitBoot ==
    /\ now \in {CHOOSE d \in NowDates : TRUE}
    /\ ptype = "yearly"
    /\ anchor = now
    /\ op = "init"
    /\ out = FALSE
    /\ paths = [c \in Callers |-> "none"]
    /\ store \in {{}, AllDataDirs}
    /\ req = [c \in Callers |-> "idle"]

\* listMarkdownFiles calls ensureDataDir: the flag is tested and, when it is
\* not set, set before the first mkdir is awaited
EnsureDataDir(c) ==
    /\ req[c] = "idle"
    /\ IF out
       THEN /\ req' = [req EXCEPT ![c] = "resolved"]
            /\ UNCHANGED out
       ELSE /\ out' = TRUE
            /\ req' = [req EXCEPT ![c] = "ensureDir:1"]
    /\ op' = "ensureDataDir"
    /\ UNCHANGED <<now, ptype, anchor, paths, store>>

\* await ensureDir(...): fs.mkdir(dirPath, {recursive: true}) has made the
\* i-th directory, and the directories above it
EnsureDir(c, i) ==
    /\ req[c] = "ensureDir:" \o ToString(i)
    /\ store' = store \cup {DataDirs[1], DataDirs[i]}
    /\ req' = [req EXCEPT ![c] = IF i < Len(DataDirs) THEN "ensureDir:" \o ToString(i + 1)
                                  ELSE "resolved"]
    /\ op' = "ensureDir"
    /\ UNCHANGED <<now, ptype, anchor, out, paths>>

\* walk(dirPath): fs.readdir on a directory of the data directory; a
\* missing directory is caught and lists nothing
Walk(c, dirPath) ==
    /\ req[c] = "resolved"
    /\ paths' = [paths EXCEPT ![c] = IF dirPath \in store THEN "listed" ELSE "missing"]
    /\ req' = [req EXCEPT ![c] = "returned"]
    /\ op' = "walk"
    /\ UNCHANGED <<now, ptype, anchor, out, store>>

NextBoot ==
    \/ \E c \in Callers : EnsureDataDir(c)
    \/ \E c \in Callers, i \in DOMAIN DataDirs : EnsureDir(c, i)
    \/ \E c \in Callers, dirPath \in AllDataDirs \ {"data"} : Walk(c, dirPath)

SpecBoot == InitBoot /\ [][NextBoot]_vars

\* C24: whenever a caller's ensureDataDir has resolved, the data directory
\* and its goals, reflections and vision directories exist, and the listing
\* that follows never finds its directory missing.
C24_DirectoriesExistOnceResolved ==
    \A c \in Callers :
        /\ req[c] = "resolved" => AllDataDirs \subseteq store
        /\ paths[c] # "missing"

\* C25: parseTasks and updateTaskInContent agree on the positions of the
\* tasks: the tasks of the updated content are the tasks of the content
\* with the completed flag of the task of the given id set as asked, their
\* ids, texts, sections and order unchanged, and the same update applied
\* to the updated content leaves it as it is.
C25_UpdateAgreesWithParse ==
    (Toggled /\ ValidTaskId) =>
        LET tasks == parseTasks(req.goal[1].content)
            n == CHOOSE k \in 1..Len(tasks) : tasks[k].id = req.taskId
        IN  /\ parseTasks(req.updatedContent) = [tasks EXCEPT ![n].completed = req.completed]
            /\ updateTaskInContent(req.updatedContent, req.taskId, req.completed)
                 = req.updatedContent

\* the second of several tasks, under a section, changed by the toggle
C25_Witness ==
    /\ Toggled
    /\ ValidTaskId
    /\ req.taskId = taskIdOf(1)
    /\ parseTasks(req.updatedContent) # parseTasks(req.goal[1].content)
    /\ \E k \in 1..Len(parseTasks(req.updatedContent)) :
           parseTasks(req.updatedContent)[k].section # <<>>

\* C26: a task toggle on a document whose status is completed or abandoned
\* leaves that status as it was, whatever the completed value of the request.
C26_FinishedGoalKeepsStatus ==
    (Toggled /\ req.before[1].status \in {"completed", "abandoned"}) =>
        store[1].status = req.before[1].status

\* ---------------------------------------------------------------------
\* PATCH /api/goals served for several requests at a time: req holds one
\* request record per request, each at its own await.
\* ---------------------------------------------------------------------

NumRequests == 2

Requests == 1..NumRequests

\* the goal document exists when the requests arrive
InitToggles ==
    /\ now \in NowDates
    /\ ptype = "weekly"
    /\ anchor = now
    /\ op = "init"
    /\ out = <<>>
    /\ paths = <<>>
    /\ store \in {writeGoal("not-started", content) : content \in Contents}
    /\ req = [r \in Requests |-> NoRequest]

\* request r up to its update: the body is validated and the goal is read
ToggleRead(r, taskId, completed) ==
    /\ req[r].pc = "idle"
    /\ req' = [req EXCEPT ![r] =
                  IF taskId = ""
                  THEN [NoRequest EXCEPT !.pc = "done", !.response = 400]
                  ELSE [NoRequest EXCEPT !.pc = "writeGoal", !.taskId = taskId,
                                         !.completed = completed, !.before = store,
                                         !.goal = readGoal(store)]]
    /\ UNCHANGED <<store, periodVars>>

\* request r: updateTaskInContent on the goal it read, the status, await writeGoal
ToggleWrite(r) ==
    /\ req[r].pc = "writeGoal"
    /\ LET updatedContent == updateTaskInContent(req[r].goal[1].content, req[r].taskId,
                                                 req[r].completed)
       IN  /\ store' = writeGoal(patchStatus(req[r].goal[1].status, req[r].completed),
                                 updatedContent)
           /\ req' = [req EXCEPT ![r].pc = "readUpdated", ![r].updatedContent = updatedContent]
    /\ UNCHANGED periodVars

\* request r: the updated goal is read and the response sent
ToggleRespond(r) ==
    /\ req[r].pc = "readUpdated"
    /\ req' = [req EXCEPT ![r].pc = "done", ![r].response = 200]
    /\ UNCHANGED <<store, periodVars>>

NextToggles ==
    \/ \E r \in Requests, taskId \in TaskIds, completed \in BOOLEAN : ToggleRead(r, taskId, completed)
    \/ \E r \in Requests : ToggleWrite(r)
    \/ \E r \in Requests : ToggleRespond(r)

SpecToggles == InitToggles /\ [][NextToggles]_vars

\* the completed flag of the task with the given id in the stored body
StoredFlag(taskId) ==
    LET tasks == parseTasks(readGoal(store)[1].content)
    IN  tasks[CHOOSE k \in 1..Len(tasks) : tasks[k].id = taskId].completed

\* C27: when the requests have toggled different tasks of the document and
\* all of them have been answered, the stored body has every task they
\* named in the state its request asked for.
C27_NoLostToggle ==
    (/\ \A r \in Requests : req[r].response = 200
     /\ \A r, s \in Requests : r # s => req[r].taskId # req[s].taskId
     /\ \A r \in Requests :
            \E k \in 1..Len(parseTasks(readGoal(store)[1].content)) :
                parseTasks(readGoal(store)[1].content)[k].id = req[r].taskId)
    => \A r \in Requests : StoredFlag(req[r].taskId) = req[r].completed

\* the places of the tree where a node of the given path hangs under a
\* month: the numbers of its quarter, its month and itself among the children
LeavesOf(tree, path) ==
    {<<q, m, w>> \in (1..4) \X (1..3) \X (1..Cardinality(store)) :
        /\ q <= Len(tree.children)
        /\ m <= Len(tree.children[q].children)
        /\ w <= Len(tree.children[q].children[m].children)
        /\ tree.children[q].children[m].children[w].path = path}

\* C28: without a vision document every weekly goal document of the year is
\* a leaf of the tree exactly once, under the node of the month of its
\* frontmatter, whether or not that month has a monthly document.
C28_EveryWeekIsALeaf ==
    (op = "buildGoalTree" /\ VisionFiles = {}) =>
        \A f \in {g \in store : g.period = "weekly"} :
            /\ Cardinality(LeavesOf(out, f.path)) = 1
            /\ \A at \in LeavesOf(out, f.path) :
                   out.children[at[1]].children[at[2]].id
                     = "m" \o ToString(f.month) \o "-" \o ToString(f.year)

\* ---------------------------------------------------------------------
\* The chat hook useAgentChat and the event stream of POST /api/agent.
\* store is the state of the hook and its panel context, req the request
\* in flight with the locals of sendMessage (kept as they were when the
\* stream ended), out the response as the network holds it. The bytes of the stream are a sequence of pieces: a
\* line feed, the literals 'event: ' and 'data: ', an event name, or the
\* JSON text of one payload; a chunk ends between two pieces.
\* ---------------------------------------------------------------------

\* a payload with the fields the events carry; a field an event does not
\* carry is empty
NoPayload == [text |-> <<>>, sessionId |-> "", toolName |-> "", type |-> "", error |-> <<>>]

\* the events the server emits: a token, the complete message, a tool in
\* progress, an artifact, the result and an error
AgentEvents ==
    { [event |-> "token", data |-> [NoPayload EXCEPT !.text = <<"a">>]],
      [event |-> "message", data |-> [NoPayload EXCEPT !.text = <<"m">>, !.sessionId = "s1"]],
      [event |-> "tool_use", data |-> [NoPayload EXCEPT !.toolName = "readGoal"]],
      [event |-> "artifact", data |-> [NoPayload EXCEPT !.type = "goal"]],
      [event |-> "done", data |-> [NoPayload EXCEPT !.sessionId = "s2"]],
      [event |-> "error", data |-> [NoPayload EXCEPT !.error = <<"e">>]] }

\* events of one response
MaxEvents == 2

EventStreams == UNION {[1..k -> AgentEvents] : k \in 0..MaxEvents}

\* a piece of the stream: a literal, or the JSON text of a payload
Lit(s) == [lit |-> s, json |-> NoPayload]

Json(data) == [lit |-> "json", json |-> data]

\* encoder.encode(`event: ${name}\ndata: ${JSON.stringify(data)}\n\n`)
encodeEvent(e) ==
    <<Lit("event: "), Lit(e.event), Lit("\n"), Lit("data: "), Json(e.data), Lit("\n"), Lit("\n")>>

RECURSIVE encodeStream(_)
encodeStream(events) ==
    IF Len(events) = 0 THEN <<>> ELSE encodeEvent(events[1]) \o encodeStream(Tail(events))

\* buffer.split('\n')
RECURSIVE splitPieces(_)
splitPieces(buffer) ==
    IF \E i \in DOMAIN buffer : buffer[i] = Lit("\n")
    THEN LET i == CHOOSE j \in DOMAIN buffer :
                      buffer[j] = Lit("\n") /\ \A k \in 1..(j - 1) : buffer[k] # Lit("\n")
         IN  <<SubSeq(buffer, 1, i - 1)>> \o splitPieces(SubSeq(buffer, i + 1, Len(buffer)))
    ELSE <<buffer>>

\* the switch on eventType for a payload that parsed: the locals of
\* sendMessage and the hook state after it; thrown holds the message of
\* the Error of an error event
handleEvent(st, eventType, parsed) ==
    CASE eventType = "token" ->
           [st EXCEPT !.fullText = @ \o parsed.text,
                      !.currentStreamingText = st.fullText \o parsed.text]
      [] eventType = "message" ->
           [st EXCEPT !.fullText = IF parsed.text # <<>> /\ @ = <<>> THEN parsed.text ELSE @,
                      !.newSessionId = IF parsed.sessionId # "" THEN parsed.sessionId ELSE @]
      [] eventType = "tool_use" ->
           [st EXCEPT !.currentToolUse = parsed.toolName,
                      !.toolsUsed = IF parsed.toolName # ""
                                       /\ \A i \in DOMAIN st.toolsUsed : st.toolsUsed[i] # parsed.toolName
                                    THEN Append(@, parsed.toolName) ELSE @]
      [] eventType = "artifact" ->
           [st EXCEPT !.artifacts = Append(@, [type |-> parsed.type])]
      [] eventType = "done" ->
           [st EXCEPT !.newSessionId = IF parsed.sessionId # "" THEN parsed.sessionId ELSE @]
      [] eventType = "error" ->
           [st EXCEPT !.thrown = <<parsed.error>>]
      [] OTHER -> st

\* one line of a chunk; a data line whose text is not the JSON text of one
\* payload is a SyntaxError and is skipped
handleLine(st, line) ==
    IF Len(line) >= 1 /\ line[1] = Lit("event: ")
    THEN [st EXCEPT !.eventType = IF Len(line) = 2 THEN line[2].lit ELSE ""]
    ELSE IF Len(line) >= 1 /\ line[1] = Lit("data: ")
    THEN [(IF Len(line) = 2 /\ line[2].lit = "json"
           THEN handleEvent(st, st.eventType, line[2].json)
           ELSE st) EXCEPT !.eventType = ""]
    ELSE st

\* for (const line of lines), left when an error event throws
RECURSIVE handleLines(_, _, _)
handleLines(st, lines, i) ==
    IF i > Len(lines) \/ st.thrown # <<>> THEN st
    ELSE handleLines(handleLine(st, lines[i]), lines, i + 1)

\* one turn of the while loop: the chunk is added to the buffer, the
\* complete lines are handled and the last piece is kept
handleChunk(st, chunk) ==
    LET lines == splitPieces(st.buffer \o chunk)
    IN  handleLines([st EXCEPT !.buffer = lines[Len(lines)], !.eventType = ""],
                    SubSeq(lines, 1, Len(lines) - 1), 1)

\* the locals of sendMessage when the reader is taken
NoLocals ==
    [fullText |-> <<>>, newSessionId |-> "", buffer |-> <<>>, toolsUsed |-> <<>>,
     artifacts |-> <<>>, eventType |-> "", thrown |-> <<>>,
     currentStreamingText |-> <<>>, currentToolUse |-> ""]

NoChatRequest == [pc |-> "idle", aborted |-> FALSE, locals |-> NoLocals]

\* `Der opstod en fejl: ${message}. Prøv igen.`
errorContent(message) ==
    <<"D", "e", "r", " ", "o", "p", "s", "t", "o", "d", " ", "e", "n", " ", "f", "e", "j", "l", ":", " ">> \o message \o <<".", " ", "P", "r", "ø", "v", " ", "i", "g", "e", "n", ".">>

\* the finally of sendMessage
finallyBlock_KeepsStreaming(hook) ==
    [hook EXCEPT !.currentStreamingText = <<>>, !.currentToolUse = "", !.abortRef = FALSE]

finallyBlock(hook) ==
    [hook EXCEPT !.isStreaming = FALSE, !.currentStreamingText = <<>>, !.currentToolUse = "",
                 !.abortRef = FALSE]

\* the catch of sendMessage for an error that is no AbortError
catchBlock(hook, message) ==
    [hook EXCEPT !.messages = Append(@, [role |-> "assistant", content |-> errorContent(message),
                                        toolsUsed |-> <<>>, artifacts |-> <<>>])]

\* the end of the try block: the assistant message and the session id
completeMessage(hook, locals) ==
    [hook EXCEPT !.messages = IF locals.fullText # <<>>
                              THEN Append(@, [role |-> "assistant", content |-> locals.fullText,
                                              toolsUsed |-> locals.toolsUsed,
                                              artifacts |-> locals.artifacts])
                              ELSE @,
                 !.sessionId = IF locals.newSessionId # "" THEN locals.newSessionId ELSE @]

\* the texts the user sends: nothing, a blank, and a message
ChatTexts == { <<>>, <<" ">>, <<"h", "i", " ">> }

\* messages a conversation is followed for
MaxSends == 1

UserMessages(hook) == {i \in DOMAIN hook.messages : hook.messages[i].role = "user"}

InitChat ==
    /\ now \in NowDates
    /\ ptype = "weekly"
    /\ anchor = now
    /\ op = "init"
    /\ out = [events |-> <<>>, wire |-> <<>>]
    /\ paths = <<>>
    /\ store = [messages |-> <<>>, sessionId |-> "", isStreaming |-> FALSE,
                currentStreamingText |-> <<>>, currentToolUse |-> "", abortRef |-> FALSE]
    /\ req = NoChatRequest

\* sendMessage up to the fetch: nothing when a request is streaming or the
\* text is blank
SendMessage(text) ==
    /\ Cardinality(UserMessages(store)) < MaxSends \/ store.isStreaming
    /\ IF store.isStreaming \/ trim(text) = <<>>
       THEN /\ op' = "sendMessage:return"
            /\ UNCHANGED <<store, req, out>>
       ELSE /\ op' = "sendMessage"
            /\ store' = [store EXCEPT !.messages = Append(@, [role |-> "user", content |-> trim(text),
                                                              toolsUsed |-> <<>>, artifacts |-> <<>>]),
                                      !.isStreaming = TRUE, !.currentStreamingText = <<>>,
                                      !.currentToolUse = "", !.abortRef = TRUE]
            /\ req' = [NoChatRequest EXCEPT !.pc = "fetch"]
            /\ out' = [events |-> <<>>, wire |-> <<>>]
    /\ UNCHANGED <<now, ptype, anchor, paths>>

\* the fetch resolves with the event stream of the server; the reader is taken
FetchStream(events) ==
    /\ req.pc = "fetch" /\ ~req.aborted
    /\ op' = "fetch"
    /\ out' = [events |-> events, wire |-> encodeStream(events)]
    /\ req' = [req EXCEPT !.pc = "read"]
    /\ UNCHANGED <<now, ptype, anchor, paths, store>>

\* the fetch fails, or resolves with a status that is not ok or without a
\* body: the error is caught and the finally block runs
FetchError(message) ==
    /\ req.pc = "fetch" /\ ~req.aborted
    /\ op' = "fetch:error"
    /\ store' = finallyBlock(catchBlock(store, message))
    /\ req' = NoChatRequest
    /\ UNCHANGED <<now, ptype, anchor, paths, out>>

\* reader.read() gives the next n pieces of the stream; the chunk is
\* handled, and an error event ends the request
ReadChunk(n) ==
    /\ req.pc = "read" /\ ~req.aborted
    /\ n \in 1..Len(out.wire)
    /\ op' = "read"
    /\ out' = [out EXCEPT !.wire = SubSeq(@, n + 1, Len(@))]
    /\ LET st == handleChunk(req.locals, SubSeq(out.wire, 1, n))
       IN  IF st.thrown # <<>>
           THEN /\ store' = finallyBlock(catchBlock(store, st.thrown[1]))
                /\ req' = [NoChatRequest EXCEPT !.locals = st]
           ELSE /\ store' = [store EXCEPT !.currentStreamingText = st.currentStreamingText,
                                          !.currentToolUse = st.currentToolUse]
                /\ req' = [req EXCEPT !.locals = st]
    /\ UNCHANGED <<now, ptype, anchor, paths>>

\* reader.read() gives done: the assistant message, the session id, finally
ReadDone ==
    /\ req.pc = "read" /\ ~req.aborted
    /\ out.wire = <<>>
    /\ op' = "read:done"
    /\ store' = finallyBlock(completeMessage(store, req.locals))
    /\ req' = [NoChatRequest EXCEPT !.locals = req.locals]
    /\ UNCHANGED <<now, ptype, anchor, paths, out>>

\* reader.read() rejects: the connection is lost
ReadError ==
    /\ req.pc = "read" /\ ~req.aborted
    /\ op' = "read:error"
    /\ store' = finallyBlock(catchBlock(store, <<"n", "e", "t", "w", "o", "r", "k", " ", "e", "r", "r", "o", "r">>))
    /\ req' = NoChatRequest
    /\ UNCHANGED <<now, ptype, anchor, paths, out>>

\* stopStreaming: abortRef.current.abort()
StopStreaming ==
    /\ op' = "stopStreaming"
    /\ req' = IF store.abortRef THEN [req EXCEPT !.aborted = TRUE] ELSE req
    /\ UNCHANGED <<now, ptype, anchor, paths, out, store>>

\* the pending fetch or read rejects with an AbortError: return, finally
AbortError ==
    /\ req.pc \in {"fetch", "read"} /\ req.aborted
    /\ op' = "abortError"
    /\ store' = finallyBlock(store)
    /\ req' = NoChatRequest
    /\ UNCHANGED <<now, ptype, anchor, paths, out>>

\* the steps of the request in flight, the server answering with one of
\* the given event streams
RequestStepOf(streams) ==
    \/ \E events \in streams : FetchStream(events)
    \/ \E message \in {<<"H", "T", "T", "P", " ", "5", "0", "0">>, <<"N", "o", " ", "r", "e", "s", "p", "o", "n", "s", "e", " ", "b", "o", "d", "y">>} : FetchError(message)
    \/ \E n \in 1..Len(out.wire) : ReadChunk(n)
    \/ ReadDone
    \/ ReadError
    \/ AbortError

RequestStep == RequestStepOf(EventStreams)

NextChat ==
    \/ \E text \in ChatTexts : SendMessage(text)
    \/ StopStreaming
    \/ RequestStep

SpecChat == InitChat /\ [][NextChat]_vars

\* the responses a conversation is followed with: an empty stream, text
\* written while a tool runs, a tool that ends in an error event, and a
\* complete message with its session id
LiveStreams ==
    LET event(name) == CHOOSE e \in AgentEvents : e.event = name
    IN  { <<>>,
          <<event("token"), event("tool_use")>>,
          <<event("tool_use"), event("error")>>,
          <<event("message")>> }

RequestStepLive == RequestStepOf(LiveStreams)

NextChatLive ==
    \/ \E text \in ChatTexts : SendMessage(text)
    \/ StopStreaming
    \/ RequestStepLive

\* a fetch and a read end: the server answers and closes its stream, the
\* connection fails, or the abort signal rejects them
SpecChatLive == InitChat /\ [][NextChatLive]_vars /\ WF_vars(RequestStepLive)

\* the locals of sendMessage when the whole stream arrives in one chunk
WholeStream == handleChunk(NoLocals, encodeStream(out.events))

\* C29: however the bytes of the event stream are split into chunks,
\* sendMessage ends with the assistant text, the session id, the tools used
\* and the artifacts (or the error) it ends with when the whole stream
\* arrives in one chunk.
C29_ChunkingDoesNotMatter ==
    (req.pc = "idle" /\ op \in {"read", "read:done"}) =>
        /\ req.locals.fullText = WholeStream.fullText
        /\ req.locals.newSessionId = WholeStream.newSessionId
        /\ req.locals.toolsUsed = WholeStream.toolsUsed
        /\ req.locals.artifacts = WholeStream.artifacts
        /\ req.locals.thrown = WholeStream.thrown

\* a request of sendMessage is between its fetch and its finally block
InFlight == req.pc # "idle"

\* the hook shows nothing of a request: not streaming, no streaming text, no
\* current tool, no abort controller
Settled ==
    /\ ~store.isStreaming
    /\ store.currentStreamingText = <<>>
    /\ store.currentToolUse = ""
    /\ ~store.abortRef

\* C30: the hook runs at most one request at a time and never stays stuck in
\* the streaming state: isStreaming is true exactly while a request is in
\* flight, sendMessage called while isStreaming is true or with blank text
\* changes nothing, a request is only started when none is in flight, and
\* every accepted sendMessage leads to isStreaming false with the streaming
\* text and the current tool cleared, whether the request succeeds, fails
\* with an HTTP or stream error, or is aborted by stopStreaming.
C30_OneRequestNeverStuck ==
    /\ [](InFlight <=> store.isStreaming)
    /\ [][op' = "sendMessage:return" => UNCHANGED <<store, req, out>>]_vars
    /\ [][op' = "sendMessage" => (~InFlight /\ ~store.isStreaming /\ InFlight')]_vars
    /\ [][(InFlight /\ ~InFlight') => Settled']_vars
    /\ (store.isStreaming ~> Settled)

\* a request that was reading its stream has been aborted by stopStreaming
\* and the hook is settled again, the user's message kept
C30_Witness ==
    /\ op = "abortError"
    /\ out.events # <<>>
    /\ UserMessages(store) # {}
    /\ Settled
    /\ ~InFlight

====
